---- MODULE Spec2Model ----
(***************************************************************************)
(* A model of the floor-plan generator (modules/map_generator.py and       *)
(* basic_layout_map/basic_office_generate.py) and of the evacuation        *)
(* path finder (modules/pathfinding.py).                                   *)
(*                                                                         *)
(* Lengths are integers.  The length unit is epsilon/3 where epsilon is    *)
(* the 0.01 m tolerance of Room.is_adjacent, so one metre is 300 units and *)
(* rooms smaller than the tolerance are representable.  Door rectangles    *)
(* are kept in half units, because the code halves sums of room            *)
(* coordinates ((a + b) / 2) when it places a door.  Arithmetic on lengths *)
(* is exact: the rounding of Python floats is not modelled.                *)
(***************************************************************************)
EXTENDS Integers, Sequences, FiniteSets, TLC

VARIABLES
    pc,             \* position of the running program
    params,         \* arguments of the top-level split_space call
    stack,          \* pending split_space activations, innermost first
    rooms,          \* the module-level list `rooms`
    adjacency,      \* ensure_connectivity: room index -> list of adjacent indices
    connected,      \* ensure_connectivity: set of connected room indices
    edges_added,    \* ensure_connectivity: number of doors created
    exits_created,  \* __main__ of map_generator: number of exits created
    resolution,     \* pixels per metre of the walkability map
    office_doors,   \* basic_office_generate: the list `doors`
    office_exits,   \* basic_office_generate: the list `exits`
    exit_positions, \* the list written by save_exit_positions
    grid,           \* walkability grid: cell -> 0 (walkable) or 1 (wall)
    start_arg,      \* a_star_search: the argument `start`
    end_arg,        \* a_star_search: the argument `end`
    start,          \* a_star_search: `start` after clamping and adjusting
    end,            \* a_star_search: `end` after clamping and adjusting
    open_list,      \* a_star_search: the nodes on the heap
    closed_list,    \* a_star_search: set of expanded positions
    g_costs,        \* a_star_search: position -> best known cost
    path,           \* a_star_search: the returned path, <<>> for None
    exits,          \* the exit positions handed to find_nearest_exit
    person_pos,     \* find_nearest_exit: the agent cell
    nearest_exit,   \* find_nearest_exit: the returned exit, <<>> for None
    num_people,     \* find_random_walkable_positions: the requested number
    people_positions, \* find_random_walkable_positions: the returned list
    agent,          \* run_pathfinding: number of agents taken from the list
    paths,          \* run_pathfinding: the list `paths`, <<>> for None
    target_exits,   \* run_pathfinding: the list `target_exits`
    times_s,        \* run_pathfinding: path lengths behind `times_s`
    results,        \* run_pathfinding: the returned dictionary, <<>> for None
    program,        \* the program that was started
    layouts,        \* the entries of the directory `layouts`
    batch_index,    \* main.py: number of entries the loop has taken
    batch_log,      \* main.py: the entries handed to run_pathfinding
    exit_code,      \* exit code of the process, -1 while it runs
    connectivity_report \* ensure_connectivity: what the caller receives

layoutVars == <<params, stack, rooms, adjacency, connected, edges_added,
                connectivity_report,
                exits_created, resolution, office_doors, office_exits,
                exit_positions>>

searchVars == <<start_arg, end_arg, start, end, open_list, closed_list,
                g_costs, path>>

simVars == <<exits, person_pos, nearest_exit, num_people, people_positions>>

runVars == <<agent, paths, target_exits, times_s, results>>

batchVars == <<program, layouts, batch_index, batch_log, exit_code>>

vars == <<pc, layoutVars, grid, searchVars, simVars, runVars, batchVars>>

notLayoutVars == <<grid, searchVars, simVars, runVars, batchVars>>
rasterVars == <<exits_created, resolution, office_doors, office_exits,
                exit_positions>>
notSearchVars == <<layoutVars, simVars, runVars, batchVars>>

(***************************************************************************)
(* Bounds of the inputs of the layout generator.                           *)
(***************************************************************************)
MaxWidth == 4
MaxHeight == 4
MaxMinSize == 2
MaxDepth == 2

(***************************************************************************)
(* Units.                                                                  *)
(***************************************************************************)
epsilon == 3
UnitsPerMeter == 100 * epsilon
door_width == UnitsPerMeter
DoorInset == UnitsPerMeter \div 5
DoorDepth == (2 * UnitsPerMeter) \div 5

Abs(n) == IF n < 0 THEN -n ELSE n
Max(a, b) == IF a >= b THEN a ELSE b
Min(a, b) == IF a <= b THEN a ELSE b

RECURSIVE SeqSum(_)
SeqSum(s) == IF s = <<>> THEN 0 ELSE Head(s) + SeqSum(Tail(s))

(***************************************************************************)
(* class Room                                                              *)
(***************************************************************************)
Room(x, y, width, height) ==
    [x |-> x, y |-> y, width |-> width, height |-> height,
     doors |-> <<>>, connected_to |-> {}]

get_area(r) == r.width * r.height

\* Room.is_adjacent: the first edge test that succeeds decides the answer.
is_adjacent(self, other) ==
    IF \/ Abs(self.x + self.width - other.x) < epsilon
       \/ Abs(other.x + other.width - self.x) < epsilon
    THEN ~ (\/ self.y + self.height <= other.y
            \/ other.y + other.height <= self.y)
    ELSE IF \/ Abs(self.y + self.height - other.y) < epsilon
            \/ Abs(other.y + other.height - self.y) < epsilon
         THEN ~ (\/ self.x + self.width <= other.x
                 \/ other.x + other.width <= self.x)
         ELSE FALSE

\* The door dictionary of Room.create_door_to, in half units; <<>> when the
\* code leaves door = None.
DoorTo(self, other) ==
    LET ys == Max(self.y, other.y)
        ye == Min(self.y + self.height, other.y + other.height)
        xs == Max(self.x, other.x)
        xe == Min(self.x + self.width, other.x + other.width)
        vertical(x2) == <<[x |-> x2, y |-> ys + ye - door_width,
                           width |-> 2 * DoorDepth, height |-> 2 * door_width,
                           is_exit |-> FALSE]>>
        horizontal(y2) == <<[x |-> xs + xe - door_width, y |-> y2,
                             width |-> 2 * door_width, height |-> 2 * DoorDepth,
                             is_exit |-> FALSE]>>
    IN  IF Abs(self.x + self.width - other.x) < epsilon
        THEN vertical(2 * (self.x + self.width - DoorInset))
        ELSE IF Abs(other.x + other.width - self.x) < epsilon
        THEN vertical(2 * (self.x - DoorInset))
        ELSE IF Abs(self.y + self.height - other.y) < epsilon
        THEN horizontal(2 * (self.y + self.height - DoorInset))
        ELSE IF Abs(other.y + other.height - self.y) < epsilon
        THEN horizontal(2 * (self.y - DoorInset))
        ELSE <<>>

\* a door that is appended to both rooms it joins
create_door_to_both(rs, i, j) ==
    LET door == DoorTo(rs[i], rs[j])
    IN  IF door = <<>> THEN rs
        ELSE [rs EXCEPT ![i].doors = @ \o door,
                        ![i].connected_to = @ \cup {j},
                        ![j].doors = @ \o door]

\* Room.create_door_to(other) on rooms[i], other = rooms[j]: the room list
\* after the call.  id(other) is the index j.
create_door_to(rs, i, j) ==
    LET door == DoorTo(rs[i], rs[j])
    IN  IF door = <<>> THEN rs
        ELSE [rs EXCEPT ![i].doors = @ \o door,
                        ![i].connected_to = @ \cup {j}]

(***************************************************************************)
(* split_space                                                             *)
(***************************************************************************)
Frame(x, y, width, height, depth) ==
    [x |-> x, y |-> y, width |-> width, height |-> height, depth |-> depth]

\* a split anywhere inside the extent
SplitPositionsAnywhere(extent, min_size, grain) == 1 .. (extent - 1)

\* min_size + random.random() * (extent - 2 * min_size), random() in [0, 1).
\* Of the values random() can take, the model draws those that put the split
\* a multiple of `grain` units after min_size.
SplitPositions(extent, min_size, grain) ==
    {p \in min_size .. (extent - min_size) :
        /\ p < extent - min_size \/ extent = 2 * min_size
        /\ (p - min_size) % grain = 0}

IsLeaf(f, max_depth, min_size) ==
    \/ f.depth >= max_depth
    \/ f.width < min_size * 2
    \/ f.height < min_size * 2

\* The two recursive calls of a split, in call order.
SplitChildrenOverlapping(f, split_horizontal, split_pos) ==
    IF split_horizontal
    THEN << Frame(f.x, f.y, f.width, split_pos, f.depth + 1),
            Frame(f.x, f.y + split_pos - 1, f.width, f.height - split_pos + 1,
                  f.depth + 1) >>
    ELSE << Frame(f.x, f.y, split_pos, f.height, f.depth + 1),
            Frame(f.x + split_pos - 1, f.y, f.width - split_pos + 1, f.height,
                  f.depth + 1) >>

SplitChildren(f, split_horizontal, split_pos) ==
    IF split_horizontal
    THEN << Frame(f.x, f.y, f.width, split_pos, f.depth + 1),
            Frame(f.x, f.y + split_pos, f.width, f.height - split_pos,
                  f.depth + 1) >>
    ELSE << Frame(f.x, f.y, split_pos, f.height, f.depth + 1),
            Frame(f.x + split_pos, f.y, f.width - split_pos, f.height,
                  f.depth + 1) >>

\* One activation of split_space: the innermost pending call runs up to its
\* recursive calls (which are pushed) or appends a leaf room.
SplitSpace ==
    /\ pc = "split"
    /\ stack # <<>>
    /\ LET f == Head(stack)
           max_depth == params.max_depth
           min_size == params.min_size
       IN  IF IsLeaf(f, max_depth, min_size)
           THEN /\ rooms' = Append(rooms, Room(f.x, f.y, f.width, f.height))
                /\ stack' = Tail(stack)
           ELSE \E split_horizontal \in BOOLEAN :
                  IF split_horizontal /\ f.height >= min_size * 2
                  THEN \E split_pos \in SplitPositions(f.height, min_size, params.grain) :
                         /\ stack' = SplitChildren(f, TRUE, split_pos) \o Tail(stack)
                         /\ rooms' = rooms
                  ELSE IF ~split_horizontal /\ f.width >= min_size * 2
                  THEN \E split_pos \in SplitPositions(f.width, min_size, params.grain) :
                         /\ stack' = SplitChildren(f, FALSE, split_pos) \o Tail(stack)
                         /\ rooms' = rooms
                  ELSE /\ rooms' = Append(rooms, Room(f.x, f.y, f.width, f.height))
                       /\ stack' = Tail(stack)
    /\ pc' = IF stack' = <<>> THEN "connect" ELSE "split"
    /\ UNCHANGED <<params, adjacency, connected, edges_added,
                   connectivity_report, rasterVars, notLayoutVars>>

(***************************************************************************)
(* ensure_connectivity                                                     *)
(***************************************************************************)
RECURSIVE AdjacentFrom(_, _, _)
\* adjacency[i] as the inner loop builds it: the indices j >= from, in order
AdjacentFrom(rs, i, from) ==
    IF from > Len(rs) THEN <<>>
    ELSE (IF i # from /\ is_adjacent(rs[i], rs[from]) THEN <<from>> ELSE <<>>)
         \o AdjacentFrom(rs, i, from + 1)

BuildAdjacency(rs) == [i \in 1 .. Len(rs) |-> AdjacentFrom(rs, i, 1)]

\* first j of adjacency[i] that is not connected, 0 when there is none
RECURSIVE FirstUnconnected(_, _)
FirstUnconnected(adj, conn) ==
    IF adj = <<>> THEN 0
    ELSE IF Head(adj) \notin conn THEN Head(adj)
    ELSE FirstUnconnected(Tail(adj), conn)

\* What the caller of ensure_connectivity receives: the function has no
\* return statement with a value, no print and no raise.
ensure_connectivity_returns == [returned |-> "None", printed |-> <<>>]

\* Entry of ensure_connectivity: the early return, or the adjacency lists and
\* the initial connected set (room 0 of the code is room 1 here).
EnsureConnectivityBegin ==
    /\ pc = "connect"
    /\ IF Len(rooms) <= 1
       THEN /\ pc' = "connected"
            /\ connectivity_report' = ensure_connectivity_returns
            /\ UNCHANGED <<adjacency, connected, edges_added>>
       ELSE /\ adjacency' = BuildAdjacency(rooms)
            /\ connected' = {1}
            /\ edges_added' = 0
            /\ pc' = "grow"
            /\ UNCHANGED connectivity_report
    /\ UNCHANGED <<params, stack, rooms, rasterVars, notLayoutVars>>

LoopGuard == /\ Cardinality(connected) < Len(rooms)
             /\ edges_added < Len(rooms) * 2

\* One iteration of the while loop that finds an edge.  The iteration order of
\* the set `connected` is not fixed by the language: any connected room that
\* has an unconnected neighbour may be the one that is found first.
ConnectStep ==
    /\ pc = "grow"
    /\ LoopGuard
    /\ \E i \in connected :
         LET j == FirstUnconnected(adjacency[i], connected)
         IN  /\ j # 0
             /\ rooms' = [create_door_to(rooms, i, j)
                             EXCEPT ![j].connected_to = @ \cup {i}]
             /\ connected' = connected \cup {j}
             /\ edges_added' = edges_added + 1
    /\ pc' = "grow"
    /\ UNCHANGED <<params, stack, adjacency, connectivity_report, rasterVars,
                   notLayoutVars>>

\* The loop ends: its guard is false, or an iteration found no edge.
ConnectExit ==
    /\ pc = "grow"
    /\ \/ ~LoopGuard
       \/ \A i \in connected : FirstUnconnected(adjacency[i], connected) = 0
    /\ pc' = "connected"
    /\ connectivity_report' = ensure_connectivity_returns
    /\ UNCHANGED <<params, stack, rooms, adjacency, connected, edges_added,
                   rasterVars, notLayoutVars>>

\* The variables of the later stages of the generators, before they run.
RasterIdle ==
    /\ exits_created = 0
    /\ resolution = 0
    /\ office_doors = <<>>
    /\ office_exits = <<>>
    /\ exit_positions = <<>>

\* The variables of the agent placement of a program that places no agent.
SimIdle ==
    /\ exits = <<>>
    /\ person_pos = <<0, 0>>
    /\ nearest_exit = <<>>
    /\ num_people = 0
    /\ people_positions = <<>>

\* The variables of run_pathfinding in a program that does not call it.
RunIdle ==
    /\ agent = 0
    /\ paths = <<>>
    /\ target_exits = <<>>
    /\ times_s = <<>>
    /\ results = <<>>

\* The variables of the entry points in a program started on a function.
BatchIdle ==
    /\ program = "function"
    /\ layouts = <<>>
    /\ batch_index = 0
    /\ batch_log = <<>>
    /\ exit_code = -1

\* The search variables of a program that runs no search.
SearchIdle ==
    /\ start_arg = <<0, 0>>
    /\ end_arg = <<0, 0>>
    /\ start = <<0, 0>>
    /\ end = <<0, 0>>
    /\ open_list = {}
    /\ closed_list = {}
    /\ g_costs = <<>>
    /\ path = <<>>

(***************************************************************************)
(* Specification of one layout generation: split_space from an empty room  *)
(* list, then ensure_connectivity.                                         *)
(***************************************************************************)
LayoutInputs ==
    [x : {0}, y : {0}, width : 1 .. MaxWidth, height : 1 .. MaxHeight,
     max_depth : 0 .. MaxDepth, min_size : 1 .. MaxMinSize, grain : {1}]

InitLayout ==
    /\ pc = "split"
    /\ params \in LayoutInputs
    /\ stack = <<Frame(params.x, params.y, params.width, params.height, 0)>>
    /\ rooms = <<>>
    /\ adjacency = <<>>
    /\ connected = {}
    /\ edges_added = 0
    /\ connectivity_report = <<>>
    /\ RasterIdle
    /\ grid = <<>>
    /\ SearchIdle
    /\ SimIdle
    /\ RunIdle
    /\ BatchIdle

NextLayout ==
    \/ SplitSpace
    \/ EnsureConnectivityBegin
    \/ ConnectStep
    \/ ConnectExit

SpecLayout == InitLayout /\ [][NextLayout]_vars

(***************************************************************************)
(* Tiling of the bounding rectangle.                                       *)
(***************************************************************************)
Overlap(a, b) ==
    /\ a.x < b.x + b.width
    /\ b.x < a.x + a.width
    /\ a.y < b.y + b.height
    /\ b.y < a.y + a.height

InsideBounds(r, p) ==
    /\ p.x <= r.x
    /\ p.y <= r.y
    /\ r.x + r.width <= p.x + p.width
    /\ r.y + r.height <= p.y + p.height

Tiles(rs, p) ==
    /\ \A i \in 1 .. Len(rs) : InsideBounds(rs[i], p)
    /\ \A i, j \in 1 .. Len(rs) : i # j => ~Overlap(rs[i], rs[j])
    /\ SeqSum([i \in 1 .. Len(rs) |-> get_area(rs[i])]) = p.width * p.height

\* C1: once a split_space run that started from an empty room list has
\* returned, the leaf rooms tile the bounding rectangle: every room is inside
\* the bounds, no two rooms overlap in positive area, and the room areas sum
\* to the area of the bounds.
C1_Tiling == (pc # "split") => Tiles(rooms, params)

C1_Witness == pc # "split" /\ Len(rooms) >= 3 /\ Tiles(rooms, params)

(***************************************************************************)
(* The door graph: rooms joined by the connected_to pairs.                 *)
(***************************************************************************)
DoorEdge(rs, i, j) == j \in rs[i].connected_to \/ i \in rs[j].connected_to

RECURSIVE ReachableRooms(_, _)
ReachableRooms(rs, seen) ==
    LET more == {j \in 1 .. Len(rs) : \E i \in seen : DoorEdge(rs, i, j)}
    IN  IF more \subseteq seen THEN seen ELSE ReachableRooms(rs, seen \cup more)

DoorGraphConnected(rs) ==
    Len(rs) >= 1 => ReachableRooms(rs, {1}) = 1 .. Len(rs)

\* C2: after ensure_connectivity has completed on the rooms of one
\* split_space run, every room is reachable from every other room through
\* doors (the graph of the connected_to pairs is connected).
C2_DoorGraphConnected == (pc = "connected") => DoorGraphConnected(rooms)

(***************************************************************************)
(* Room.create_exit and the exit placement of the generator's main program *)
(***************************************************************************)
\* The list `walls` of create_exit: the outer walls the room lies on.
ExitWalls(self, width_total, height_total) ==
    (IF self.x = 0 THEN {"left"} ELSE {})
    \cup (IF self.y = 0 THEN {"top"} ELSE {})
    \cup (IF Abs(self.x + self.width - width_total) < epsilon
          THEN {"right"} ELSE {})
    \cup (IF Abs(self.y + self.height - height_total) < epsilon
          THEN {"bottom"} ELSE {})

\* The exit door of create_exit on the chosen wall, in half units.
ExitDoor(self, wall) ==
    IF wall = "top"
    THEN [x |-> 2 * self.x + (self.width - door_width),
          y |-> 2 * (self.y - DoorInset),
          width |-> 2 * door_width, height |-> 2 * DoorDepth,
          is_exit |-> TRUE]
    ELSE IF wall = "right"
    THEN [x |-> 2 * (self.x + self.width - DoorInset),
          y |-> 2 * self.y + (self.height - door_width),
          width |-> 2 * DoorDepth, height |-> 2 * door_width,
          is_exit |-> TRUE]
    ELSE IF wall = "bottom"
    THEN [x |-> 2 * self.x + (self.width - door_width),
          y |-> 2 * (self.y + self.height - DoorInset),
          width |-> 2 * door_width, height |-> 2 * DoorDepth,
          is_exit |-> TRUE]
    ELSE [x |-> 2 * (self.x - DoorInset),
          y |-> 2 * self.y + (self.height - door_width),
          width |-> 2 * DoorDepth, height |-> 2 * door_width,
          is_exit |-> TRUE]

\* self.doors.append(exit_door) on room i
create_exit(rs, i, wall) ==
    [rs EXCEPT ![i].doors = Append(@, ExitDoor(rs[i], wall))]

\* boundary_rooms of the main program
BoundaryRooms(rs, width_total, height_total) ==
    {i \in 1 .. Len(rs) : ExitWalls(rs[i], width_total, height_total) # {}}

\* create_exit on each room of `order` in turn, with the walls of `choice`
RECURSIVE CreateExits(_, _, _)
CreateExits(rs, order, choice) ==
    IF order = <<>> THEN rs
    ELSE CreateExits(create_exit(rs, Head(order), Head(choice)),
                     Tail(order), Tail(choice))

\* a loop that may visit a room twice
ExitOrdersRepeating(boundary, exit_count) ==
    IF exit_count = 1
    THEN {<<a>> : a \in boundary}
    ELSE {<<a, b>> : a \in boundary, b \in boundary}

\* The prefixes of the shuffled boundary_rooms that the loop can visit
\* before exits_created reaches exit_count: every boundary room has a wall,
\* so every visit creates an exit.
ExitOrders(boundary, exit_count) ==
    IF exit_count = 1 \/ Cardinality(boundary) = 1
    THEN {<<a>> : a \in boundary}
    ELSE {<<a, b>> : a \in boundary, b \in boundary} \ 
         {<<a, a>> : a \in boundary}

\* exit_count = 1 or 2, shuffle, and the loop over boundary_rooms
PlaceExits ==
    /\ pc = "connected"
    /\ \E exit_count \in {1, 2} :
       \E order \in ExitOrders(BoundaryRooms(rooms, params.width,
                                             params.height), exit_count) :
       \E choice \in [1 .. Len(order) -> {"left", "top", "right", "bottom"}] :
          /\ \A k \in 1 .. Len(order) :
                choice[k] \in ExitWalls(rooms[order[k]], params.width,
                                        params.height)
          /\ rooms' = CreateExits(rooms, order, choice)
          /\ exits_created' = Len(order)
    /\ pc' = "placed"
    /\ UNCHANGED <<params, stack, adjacency, connected, edges_added,
                   connectivity_report,
                   resolution, office_doors, office_exits, exit_positions,
                   notLayoutVars>>

(***************************************************************************)
(* Pixels.  int() truncates towards zero; a numpy slice a:b of an axis of  *)
(* length n counts a negative index from the end of the axis and clips     *)
(* both indices to the axis.                                               *)
(***************************************************************************)
Trunc(n, d) == IF n >= 0 THEN n \div d ELSE -((-n) \div d)

\* int(v * resolution) for a length v in units
Px(v, res) == Trunc(v * res, UnitsPerMeter)

\* int(v * resolution) for a length v in half units
PxHalf(v, res) == Trunc(v * res, 2 * UnitsPerMeter)

\* int((v + w / 2) * resolution) for lengths v, w in half units
PxCenter(v, w, res) == Trunc((2 * v + w) * res, 4 * UnitsPerMeter)

SliceIndex(a, n) == IF a < 0 THEN Max(a + n, 0) ELSE Min(a, n)

Slice(a, b, n) == {k \in 0 .. (n - 1) : SliceIndex(a, n) <= k /\ k < SliceIndex(b, n)}

\* np.ones((width_px, height_px))
Ones(width_px, height_px) ==
    [c \in (0 .. (width_px - 1)) \X (0 .. (height_px - 1)) |-> 1]

\* grid[x1:x2, y1:y2] = 0
Carve(g, x1, x2, y1, y2, width_px, height_px) ==
    [c \in DOMAIN g |->
        IF c[1] \in Slice(x1, x2, width_px) /\ c[2] \in Slice(y1, y2, height_px)
        THEN 0 ELSE g[c]]

(***************************************************************************)
(* create_walkability_map and save_exit_positions of                       *)
(* modules/map_generator.py                                                *)
(***************************************************************************)
\* int(0.1 * resolution)
wall_thickness(res) == Trunc(res, 10)

\* the room loop: the slice of each room is carved as computed, unclamped
RECURSIVE CarveRooms(_, _, _, _, _)
CarveRooms(g, rs, res, width_px, height_px) ==
    IF rs = <<>> THEN g
    ELSE LET room == Head(rs)
             x1 == Px(room.x, res) + wall_thickness(res)
             y1 == Px(room.y, res) + wall_thickness(res)
             x2 == Px(room.x + room.width, res) - wall_thickness(res)
             y2 == Px(room.y + room.height, res) - wall_thickness(res)
         IN CarveRooms(Carve(g, x1, x2, y1, y2, width_px, height_px),
                       Tail(rs), res, width_px, height_px)

\* a door loop that carves nothing
RECURSIVE CarveNoDoors(_, _, _, _, _)
CarveNoDoors(g, ds, res, width_px, height_px) ==
    IF ds = <<>> THEN g
    ELSE CarveNoDoors(g, Tail(ds), res, width_px, height_px)

\* the door loop, over a list of doors
RECURSIVE CarveDoors(_, _, _, _, _)
CarveDoors(g, ds, res, width_px, height_px) ==
    IF ds = <<>> THEN g
    ELSE LET door == Head(ds)
             x1 == Max(0, PxHalf(door.x, res))
             y1 == Max(0, PxHalf(door.y, res))
             x2 == Min(width_px, PxHalf(door.x + door.width, res))
             y2 == Min(height_px, PxHalf(door.y + door.height, res))
         IN CarveDoors(Carve(g, x1, x2, y1, y2, width_px, height_px),
                       Tail(ds), res, width_px, height_px)

\* the doors of all rooms, in the order of the nested loops
RECURSIVE AllDoors(_)
AllDoors(rs) == IF rs = <<>> THEN <<>> ELSE Head(rs).doors \o AllDoors(Tail(rs))

create_walkability_map(rs, width, height, res) ==
    LET width_px == Px(width, res)
        height_px == Px(height, res)
    IN CarveDoors(CarveRooms(Ones(width_px, height_px), rs, res,
                             width_px, height_px),
                  AllDoors(rs), res, width_px, height_px)

\* the centres of the exits without the clamp to the grid
RECURSIVE ExitCentersUnclamped(_, _, _, _)
ExitCentersUnclamped(ds, res, max_x, max_y) ==
    IF ds = <<>> THEN <<>>
    ELSE LET door == Head(ds)
             rest == ExitCentersUnclamped(Tail(ds), res, max_x, max_y)
         IN IF door.is_exit
            THEN <<<<PxCenter(door.x, door.width, res),
                     PxCenter(door.y, door.height, res)>>>> \o rest
            ELSE rest

\* the exit loop of save_exit_positions, over a list of doors
RECURSIVE ExitCenters(_, _, _, _)
ExitCenters(ds, res, max_x, max_y) ==
    IF ds = <<>> THEN <<>>
    ELSE LET door == Head(ds)
             center_x == PxCenter(door.x, door.width, res)
             center_y == PxCenter(door.y, door.height, res)
             rest == ExitCenters(Tail(ds), res, max_x, max_y)
         IN IF door.is_exit
            THEN <<<<Max(0, Min(center_x, max_x)),
                     Max(0, Min(center_y, max_y))>>>> \o rest
            ELSE rest

save_exit_positions(rs, width, height, res) ==
    ExitCenters(AllDoors(rs), res, Px(width, res) - 1, Px(height, res) - 1)

CreateWalkabilityMap ==
    /\ pc = "placed"
    /\ grid' = create_walkability_map(rooms, params.width, params.height,
                                      resolution)
    /\ pc' = "rastered"
    /\ UNCHANGED <<layoutVars, searchVars, simVars, runVars, batchVars>>

SaveExitPositions ==
    /\ pc = "rastered"
    /\ exit_positions' = save_exit_positions(rooms, params.width,
                                             params.height, resolution)
    /\ pc' = "saved"
    /\ UNCHANGED <<params, stack, rooms, adjacency, connected, edges_added,
                   connectivity_report,
                   exits_created, resolution, office_doors, office_exits,
                   notLayoutVars>>

(***************************************************************************)
(* basic_layout_map/basic_office_generate.py                               *)
(***************************************************************************)
FLOOR_WIDTH == 30 * UnitsPerMeter
FLOOR_HEIGHT == 20 * UnitsPerMeter
HALLWAY_HEIGHT == 5 * UnitsPerMeter
HALLWAY_Y == (15 * UnitsPerMeter) \div 2
OFFICE_HEIGHT_TOP == (15 * UnitsPerMeter) \div 2
OFFICE_HEIGHT_BOTTOM == (15 * UnitsPerMeter) \div 2
NUM_OFFICES_PER_ROW == 3
OFFICE_WIDTH == FLOOR_WIDTH \div NUM_OFFICES_PER_ROW

OfficeRoom(x, y, width, height, room_type) ==
    [x |-> x, y |-> y, width |-> width, height |-> height,
     type |-> room_type, doors |-> <<>>]

\* a door or exit of the office layout, in half units like the doors above
OfficeDoor(x, y, width, height, is_exit) ==
    [x |-> 2 * x, y |-> 2 * y, width |-> 2 * width, height |-> 2 * height,
     is_exit |-> is_exit]

TopOffice(i) ==
    OfficeRoom(i * OFFICE_WIDTH, HALLWAY_Y - OFFICE_HEIGHT_TOP,
               OFFICE_WIDTH, OFFICE_HEIGHT_TOP, "office")

TopDoor(i) ==
    OfficeDoor(i * OFFICE_WIDTH + OFFICE_WIDTH \div 2 - UnitsPerMeter \div 2,
               (HALLWAY_Y - OFFICE_HEIGHT_TOP) + OFFICE_HEIGHT_TOP - DoorInset,
               door_width, DoorDepth, FALSE)

BottomOffice(i) ==
    OfficeRoom(i * OFFICE_WIDTH, HALLWAY_Y + HALLWAY_HEIGHT,
               OFFICE_WIDTH, OFFICE_HEIGHT_BOTTOM, "office")

BottomDoor(i) ==
    OfficeDoor(i * OFFICE_WIDTH + OFFICE_WIDTH \div 2 - UnitsPerMeter \div 2,
               (HALLWAY_Y + HALLWAY_HEIGHT) - DoorInset,
               door_width, DoorDepth, FALSE)

exit_y == HALLWAY_Y + HALLWAY_HEIGHT \div 2

\* create_office_layout: rooms, doors and exits
OfficeRooms ==
    [i \in 1 .. NUM_OFFICES_PER_ROW |-> TopOffice(i - 1)]
    \o <<OfficeRoom(0, HALLWAY_Y, FLOOR_WIDTH, HALLWAY_HEIGHT, "hallway")>>
    \o [i \in 1 .. NUM_OFFICES_PER_ROW |-> BottomOffice(i - 1)]

OfficeDoors ==
    [i \in 1 .. NUM_OFFICES_PER_ROW |-> TopDoor(i - 1)]
    \o [i \in 1 .. NUM_OFFICES_PER_ROW |-> BottomDoor(i - 1)]

OfficeExits ==
    <<OfficeDoor(-DoorInset, exit_y - UnitsPerMeter \div 2,
                 DoorDepth, door_width, TRUE),
      OfficeDoor(FLOOR_WIDTH - DoorInset, exit_y - UnitsPerMeter \div 2,
                 DoorDepth, door_width, TRUE)>>

\* int(0.15 * resolution)
office_wall_thickness(res) == Trunc(15 * res, 100)

\* the room loop of the office create_walkability_map: clamped slices
RECURSIVE OfficeCarveRooms(_, _, _, _, _)
OfficeCarveRooms(g, rs, res, width_px, height_px) ==
    IF rs = <<>> THEN g
    ELSE LET room == Head(rs)
             x1 == Px(room.x, res) + office_wall_thickness(res)
             y1 == Px(room.y, res) + office_wall_thickness(res)
             x2 == Px(room.x + room.width, res) - office_wall_thickness(res)
             y2 == Px(room.y + room.height, res) - office_wall_thickness(res)
         IN OfficeCarveRooms(
                Carve(g, Max(0, Min(x1, width_px - 1)),
                         Max(0, Min(x2, width_px)),
                         Max(0, Min(y1, height_px - 1)),
                         Max(0, Min(y2, height_px)), width_px, height_px),
                Tail(rs), res, width_px, height_px)

office_create_walkability_map(rs, doors, exit_list, width, height, res) ==
    LET width_px == Px(width, res)
        height_px == Px(height, res)
        roomed == OfficeCarveRooms(Ones(width_px, height_px), rs, res,
                                   width_px, height_px)
        doored == CarveDoors(roomed, doors, res, width_px, height_px)
    IN CarveDoors(doored, exit_list, res, width_px, height_px)

\* save_exit_positions of the office generator: the centres as computed
RECURSIVE office_save_exit_positions(_, _)
office_save_exit_positions(exit_list, res) ==
    IF exit_list = <<>> THEN <<>>
    ELSE LET exit_d == Head(exit_list)
         IN <<<<PxCenter(exit_d.x, exit_d.width, res),
                PxCenter(exit_d.y, exit_d.height, res)>>>>
            \o office_save_exit_positions(Tail(exit_list), res)

CreateOfficeLayout ==
    /\ pc = "office"
    /\ rooms' = OfficeRooms
    /\ office_doors' = OfficeDoors
    /\ office_exits' = OfficeExits
    /\ params' = [params EXCEPT !.width = FLOOR_WIDTH, !.height = FLOOR_HEIGHT]
    /\ pc' = "office_laid"
    /\ UNCHANGED <<stack, adjacency, connected, edges_added,
                   connectivity_report, exits_created,
                   resolution, exit_positions, notLayoutVars>>

OfficeWalkabilityMap ==
    /\ pc = "office_laid"
    /\ grid' = office_create_walkability_map(rooms, office_doors, office_exits,
                                             params.width, params.height,
                                             resolution)
    /\ pc' = "office_rastered"
    /\ UNCHANGED <<layoutVars, searchVars, simVars, runVars, batchVars>>

OfficeSaveExitPositions ==
    /\ pc = "office_rastered"
    /\ exit_positions' = office_save_exit_positions(office_exits, resolution)
    /\ pc' = "office_saved"
    /\ UNCHANGED <<params, stack, rooms, adjacency, connected, edges_added,
                   connectivity_report,
                   exits_created, resolution, office_doors, office_exits,
                   notLayoutVars>>

(***************************************************************************)
(* Specification of the two generator programs: the main program of        *)
(* modules/map_generator.py on a floor of one metre by one metre, and the  *)
(* main program of basic_office_generate.py, each at a small resolution.   *)
(***************************************************************************)
MaxSplits == 2
MaxOfficeResolution == 2

GenerateInputs ==
    [x : {0}, y : {0}, width : {UnitsPerMeter}, height : {UnitsPerMeter},
     max_depth : 0 .. MaxSplits,
     min_size : {UnitsPerMeter \div 20, UnitsPerMeter \div 2},
     grain : {(9 * UnitsPerMeter) \div 20}]

GenerateResolutions == {10}

InitGenerate ==
    /\ \/ /\ pc = "split"
          /\ params \in GenerateInputs
          /\ stack = <<Frame(params.x, params.y, params.width, params.height, 0)>>
          /\ resolution \in GenerateResolutions
       \/ /\ pc = "office"
          /\ params = [x |-> 0, y |-> 0, width |-> 0, height |-> 0,
                       max_depth |-> 0, min_size |-> 0, grain |-> 1]
          /\ stack = <<>>
          /\ resolution \in 1 .. MaxOfficeResolution
    /\ rooms = <<>>
    /\ adjacency = <<>>
    /\ connected = {}
    /\ edges_added = 0
    /\ connectivity_report = <<>>
    /\ exits_created = 0
    /\ office_doors = <<>>
    /\ office_exits = <<>>
    /\ exit_positions = <<>>
    /\ grid = <<>>
    /\ SearchIdle
    /\ SimIdle
    /\ RunIdle
    /\ BatchIdle

NextGenerate ==
    \/ SplitSpace
    \/ EnsureConnectivityBegin
    \/ ConnectStep
    \/ ConnectExit
    \/ PlaceExits
    \/ CreateWalkabilityMap
    \/ SaveExitPositions
    \/ CreateOfficeLayout
    \/ OfficeWalkabilityMap
    \/ OfficeSaveExitPositions

SpecGenerate == InitGenerate /\ [][NextGenerate]_vars

(***************************************************************************)
(* The walkability map against the rectangles of the layout.               *)
(***************************************************************************)
\* cell c lies in the pixel rectangle of the room shrunk by wt on all sides
InShrunkRoom(c, room, res, wt) ==
    /\ Px(room.x, res) + wt <= c[1]
    /\ c[1] < Px(room.x + room.width, res) - wt
    /\ Px(room.y, res) + wt <= c[2]
    /\ c[2] < Px(room.y + room.height, res) - wt

\* cell c lies in the pixel rectangle of the door
InDoorRect(c, door, res) ==
    /\ PxHalf(door.x, res) <= c[1]
    /\ c[1] < PxHalf(door.x + door.width, res)
    /\ PxHalf(door.y, res) <= c[2]
    /\ c[2] < PxHalf(door.y + door.height, res)

WalkableIff(g, rs, ds, res, wt) ==
    \A c \in DOMAIN g :
        g[c] = 0 <=> \/ \E i \in 1 .. Len(rs) : InShrunkRoom(c, rs[i], res, wt)
                     \/ \E k \in 1 .. Len(ds) : InDoorRect(c, ds[k], res)

GeneratorRastered == pc \in {"rastered", "saved"}
OfficeRastered == pc \in {"office_rastered", "office_saved"}

\* The office variant alone: its clamped slices carve exactly the shrunk
\* rooms, the doors and the exits.
OfficeWalkableIff ==
    OfficeRastered =>
        WalkableIff(grid, rooms, office_doors \o office_exits, resolution,
                    office_wall_thickness(resolution))

\* C7: after create_walkability_map (either generator) a cell holds 0 if and
\* only if it lies in the pixel rectangle of some room shrunk by
\* wall_thickness on all four sides or in the pixel rectangle of some door
\* or exit; every other cell holds 1.
C7_WalkableIff ==
    /\ GeneratorRastered =>
          WalkableIff(grid, rooms, AllDoors(rooms), resolution,
                      wall_thickness(resolution))
    /\ OfficeRastered =>
          WalkableIff(grid, rooms, office_doors \o office_exits, resolution,
                      office_wall_thickness(resolution))

(***************************************************************************)
(* The saved exit positions against the grid of the same layout.           *)
(***************************************************************************)
InsideGrid(p, width, height, res) ==
    /\ 0 <= p[1] /\ p[1] <= Px(width, res) - 1
    /\ 0 <= p[2] /\ p[2] <= Px(height, res) - 1

\* The generator of modules/map_generator.py alone: its clamped centres
\* are cells of the grid.
GeneratorExitsInGrid ==
    pc = "saved" =>
        \A k \in 1 .. Len(exit_positions) :
            InsideGrid(exit_positions[k], params.width, params.height,
                       resolution)

\* C8: every exit position written by save_exit_positions (either
\* generator) is a cell of the grid built for the same layout:
\* 0 <= x_px <= width_px - 1 and 0 <= y_px <= height_px - 1.
C8_ExitsInGrid ==
    pc \in {"saved", "office_saved"} =>
        \A k \in 1 .. Len(exit_positions) :
            InsideGrid(exit_positions[k], params.width, params.height,
                       resolution)

(***************************************************************************)
(* The path finder.  A grid is a function from cells <<x, y>> to 0 or 1,   *)
(* with len(grid) = GridW and len(grid[0]) = GridH.                        *)
(***************************************************************************)
GridW == 3
GridH == 3

Cells == (0 .. GridW - 1) \X (0 .. GridH - 1)

\* 1000 * cos(2 * pi * i / 32), rounded, for i = 0 .. 8
CosQuadrant == <<1000, 981, 924, 831, 707, 556, 383, 195, 0>>

Cos1000(i) ==
    LET k == i % 32
    IN  IF k <= 8 THEN CosQuadrant[k + 1]
        ELSE IF k <= 16 THEN - CosQuadrant[16 - k + 1]
        ELSE IF k <= 24 THEN - CosQuadrant[k - 16 + 1]
        ELSE CosQuadrant[32 - k + 1]

Sin1000(i) == Cos1000(i + 24)

\* round() of a value given in thousandths (no value is a tie)
Round1000(v) == (v + 500) \div 1000

SeqToSet(q) == {q[i] : i \in 1 .. Len(q)}

RECURSIVE Directions(_, _)
\* generate_32_directions: the loop from angle index i on, `directions` so far
Directions(i, directions) ==
    IF i >= 32 THEN directions
    ELSE LET dx == Round1000(Cos1000(i))
             dy == Round1000(Sin1000(i))
         IN  IF <<dx, dy>> # <<0, 0>> /\ <<dx, dy>> \notin SeqToSet(directions)
             THEN Directions(i + 1, Append(directions, <<dx, dy>>))
             ELSE Directions(i + 1, directions)

generate_32_directions == Directions(0, <<>>)

DIRECTIONS_32 == generate_32_directions

(***************************************************************************)
(* Costs.  Every step of DIRECTIONS_32 has length 1 or sqrt(2), so a path  *)
(* cost is a + b * sqrt(2), kept as the pair of counts [a, b].             *)
(***************************************************************************)
Cost(a, b) == [a |-> a, b |-> b]

\* c1 < c2 as real numbers
CostLess(c1, c2) ==
    LET da == c2.a - c1.a
        db == c2.b - c1.b
    IN  IF da >= 0 /\ db >= 0 THEN da > 0 \/ db > 0
        ELSE IF da <= 0 /\ db <= 0 THEN FALSE
        ELSE IF da > 0 THEN da * da > 2 * db * db
        ELSE 2 * db * db > da * da

CostAdd(c1, c2) == Cost(c1.a + c2.a, c1.b + c2.b)

\* math.sqrt(dx*dx + dy*dy) for an offset of DIRECTIONS_32
move_cost(dx, dy) ==
    IF dx * dx + dy * dy = 1 THEN Cost(1, 0) ELSE Cost(0, 1)

\* The float sum of a ones and b square roots of two depends on the order of
\* the summands only when a >= 1 and b >= 2 (IEEE double arithmetic): only then
\* can two equal costs compare as different floats.
FloatOrderSensitive(c) == c.a >= 1 /\ c.b >= 2

\* f values are compared in thousandths, rounded down; two values that are
\* equal as real numbers differ by at most FTolerance there.
FScale == 1000
FTolerance == 1

RECURSIVE IsqrtBetween(_, _, _)
IsqrtBetween(v, lo, hi) ==
    IF lo >= hi THEN lo
    ELSE LET mid == (lo + hi + 1) \div 2
         IN  IF mid * mid <= v THEN IsqrtBetween(v, mid, hi)
             ELSE IsqrtBetween(v, lo, mid - 1)

\* floor(sqrt(v)) for 0 <= v < 2^31
Isqrt(v) == IsqrtBetween(v, 0, 46340)

\* math.dist(p, q), in thousandths
Dist1000(p, q) ==
    LET dx == p[1] - q[1]
        dy == p[2] - q[2]
    IN  Isqrt((dx * dx + dy * dy) * FScale * FScale)

Cost1000(c) == c.a * FScale + Isqrt(2 * c.b * c.b * FScale * FScale)

(***************************************************************************)
(* is_diagonal_move_valid and the neighbour loop of a_star_search          *)
(***************************************************************************)
\* is_diagonal_move_valid without its wall test
DiagonalAlwaysValid(g, current, neighbor) == TRUE

is_diagonal_move_valid(g, current, neighbor) ==
    LET x1 == current[1]
        y1 == current[2]
        x2 == neighbor[1]
        y2 == neighbor[2]
    IN  IF Abs(x2 - x1) = 1 /\ Abs(y2 - y1) = 1
        THEN ~ (g[<<x2, y1>>] # 0 \/ g[<<x1, y2>>] # 0)
        ELSE TRUE

\* len(grid) and len(grid[0]) of a grid given as a function on its cells
GridLen(g) == Cardinality({c[1] : c \in DOMAIN g})

RowLen(g) == Cardinality({c[2] : c \in DOMAIN g})

\* not (nx < 0 or ny < 0 or nx >= len(grid) or ny >= len(grid[0])): the cells
\* of the grid are its domain
InGrid(g, c) == c \in DOMAIN g

\* the neighbour tests without `if grid[nx][ny] != 0: continue`
NeighborOkThroughWalls(g, pos, d) ==
    LET n == <<pos[1] + d[1], pos[2] + d[2]>>
    IN  /\ InGrid(g, n)
        /\ is_diagonal_move_valid(g, pos, n)

\* A neighbour that passes the three `continue` tests of the loop.
NeighborOk(g, pos, d) ==
    LET n == <<pos[1] + d[1], pos[2] + d[2]>>
    IN  /\ InGrid(g, n)
        /\ g[n] = 0
        /\ is_diagonal_move_valid(g, pos, n)

\* The directions of the loop whose neighbour is examined further.
OpenDirections(g, pos) ==
    {d \in SeqToSet(DIRECTIONS_32) : NeighborOk(g, pos, d)}

(***************************************************************************)
(* a_star_search                                                           *)
(***************************************************************************)
AdjustRadius == 5

Clamp(g, p) ==
    << Max(0, Min(p[1], GridLen(g) - 1)), Max(0, Min(p[2], RowLen(g) - 1)) >>

\* The replacement of an unwalkable endpoint: the first walkable in-bounds
\* cell of the scan dx = -5 .. 5 (outer), dy = -5 .. 5 (inner); the endpoint
\* itself when the scan finds none.
Adjust(g, p) ==
    IF g[p] = 0 THEN p
    ELSE LET found == {c \in DOMAIN g : /\ Abs(c[1] - p[1]) <= AdjustRadius
                                     /\ Abs(c[2] - p[2]) <= AdjustRadius
                                     /\ g[c] = 0}
         IN  IF found = {} THEN p
             ELSE CHOOSE c \in found :
                    \A o \in found : c[1] < o[1] \/ (c[1] = o[1] /\ c[2] <= o[2])

\* A Node: its position, g, f (in thousandths) and the positions along its
\* parent links, start first.
Node(position, g, f, chain) ==
    [position |-> position, g |-> g, f |-> f, chain |-> chain]

\* a search that keeps the closed list of the search before it
AStarBeginKeepsClosed ==
    /\ pc = "search_begin"
    /\ start' = Adjust(grid, Clamp(grid, start_arg))
    /\ end' = Adjust(grid, Clamp(grid, end_arg))
    /\ open_list' = {Node(start', Cost(0, 0), 0, <<start'>>)}
    /\ closed_list' = closed_list
    /\ g_costs' = [c \in {start'} |-> Cost(0, 0)]
    /\ path' = <<>>
    /\ pc' = "search"
    /\ UNCHANGED <<start_arg, end_arg, grid, notSearchVars>>

\* Lines 78-117: clamp and adjust the endpoints, push the start node.
AStarBegin ==
    /\ pc = "search_begin"
    /\ start' = Adjust(grid, Clamp(grid, start_arg))
    /\ end' = Adjust(grid, Clamp(grid, end_arg))
    /\ open_list' = {Node(start', Cost(0, 0), 0, <<start'>>)}
    /\ closed_list' = {}
    /\ g_costs' = [c \in {start'} |-> Cost(0, 0)]
    /\ path' = <<>>
    /\ pc' = "search"
    /\ UNCHANGED <<start_arg, end_arg, grid, notSearchVars>>

\* a heap whose order is not kept: any node may be popped
PopAny(open) == open

\* heapq.heappop returns a node with the least f; which one of several nodes
\* with equal f is not determined by the model.
PopCandidates(open) ==
    {n \in open : \A m \in open : n.f <= m.f + FTolerance}

\* The outcome of `(nx, ny) not in g_costs or new_g_cost < g_costs[(nx, ny)]`
\* is fixed unless two equal costs may differ as floats.
\* the test with `g_costs.get((nx, ny), 0)` in place of the membership test
MustPushKnownOnly(costs, n, new_g) ==
    n \in DOMAIN costs /\ CostLess(new_g, costs[n])

\* the test with `<=` in place of `<`
MustPushNotWorse(costs, n, new_g) ==
    n \notin DOMAIN costs \/ ~CostLess(costs[n], new_g)

MustPush(costs, n, new_g) ==
    n \notin DOMAIN costs \/ CostLess(new_g, costs[n])

MayPush(costs, n, new_g) ==
    /\ n \in DOMAIN costs
    /\ new_g = costs[n]
    /\ FloatOrderSensitive(new_g)

\* One iteration of the while loop.
AStarStep ==
    /\ pc = "search"
    /\ open_list # {}
    /\ \E current_node \in PopCandidates(open_list) :
         LET pos == current_node.position
             rest == open_list \ {current_node}
         IN  IF pos \in closed_list
             THEN /\ open_list' = rest
                  /\ UNCHANGED <<closed_list, g_costs, path, pc>>
             ELSE /\ closed_list' = closed_list \cup {pos}
                  /\ IF pos = end
                     THEN /\ path' = current_node.chain
                          /\ pc' = "done"
                          /\ open_list' = rest
                          /\ UNCHANGED g_costs
                     ELSE LET nb(d) == <<pos[1] + d[1], pos[2] + d[2]>>
                              new_g(d) == CostAdd(g_costs[pos], move_cost(d[1], d[2]))
                              dirs == OpenDirections(grid, pos)
                              must == {d \in dirs : MustPush(g_costs, nb(d), new_g(d))}
                              may == {d \in dirs : MayPush(g_costs, nb(d), new_g(d))}
                          IN  \E some \in SUBSET may :
                                LET pushed == must \cup some
                                IN  /\ g_costs' =
                                         [c \in DOMAIN g_costs \cup {nb(d) : d \in pushed} |->
                                            IF \E d \in pushed : nb(d) = c
                                            THEN new_g(CHOOSE d \in pushed : nb(d) = c)
                                            ELSE g_costs[c]]
                                    /\ open_list' = rest \cup
                                         {Node(nb(d), new_g(d),
                                               Cost1000(new_g(d)) + Dist1000(nb(d), end),
                                               Append(current_node.chain, nb(d)))
                                            : d \in pushed}
                                    /\ UNCHANGED <<path, pc>>
    /\ UNCHANGED <<start_arg, end_arg, start, end, grid, notSearchVars>>

\* The heap is empty: return None.
AStarFail ==
    /\ pc = "search"
    /\ open_list = {}
    /\ path' = <<>>
    /\ pc' = "done"
    /\ UNCHANGED <<start_arg, end_arg, start, end, open_list, closed_list,
                   g_costs, grid, notSearchVars>>

LayoutIdle ==
    /\ params = [x |-> 0, y |-> 0, width |-> 0, height |-> 0,
                 max_depth |-> 0, min_size |-> 0, grain |-> 1]
    /\ stack = <<>>
    /\ rooms = <<>>
    /\ adjacency = <<>>
    /\ connected = {}
    /\ edges_added = 0
    /\ connectivity_report = <<>>
    /\ RasterIdle

Grids == [Cells -> {0, 1}]

InitSearch ==
    /\ pc = "search_begin"
    /\ grid \in Grids
    /\ start_arg \in Cells
    /\ end_arg \in Cells
    /\ grid[start_arg] = 0
    /\ grid[end_arg] = 0
    /\ start = start_arg
    /\ end = end_arg
    /\ open_list = {}
    /\ closed_list = {}
    /\ g_costs = <<>>
    /\ path = <<>>
    /\ LayoutIdle
    /\ SimIdle
    /\ RunIdle
    /\ BatchIdle

NextSearch ==
    \/ AStarBegin
    \/ AStarStep
    \/ AStarFail

SpecSearch == InitSearch /\ [][NextSearch]_vars

(***************************************************************************)
(* Reference semantics of the movement rules, independent of the search:   *)
(* a step goes from a walkable cell to a walkable cell by an offset of     *)
(* DIRECTIONS_32, and a unit-diagonal step needs both orthogonal           *)
(* neighbours walkable.                                                    *)
(***************************************************************************)
UnitDiagonal(c, n) == Abs(n[1] - c[1]) = 1 /\ Abs(n[2] - c[2]) = 1

CutsCorner(g, c, n) ==
    /\ UnitDiagonal(c, n)
    /\ g[<<n[1], c[2]>>] # 0 \/ g[<<c[1], n[2]>>] # 0

RuleStep(g, c, n) ==
    /\ c \in DOMAIN g
    /\ n \in DOMAIN g
    /\ g[c] = 0
    /\ g[n] = 0
    /\ <<n[1] - c[1], n[2] - c[2]>> \in SeqToSet(DIRECTIONS_32)
    /\ ~CutsCorner(g, c, n)

\* Euclidean length of a step between neighbouring cells
StepLength(c, n) ==
    IF (n[1] - c[1]) * (n[1] - c[1]) + (n[2] - c[2]) * (n[2] - c[2]) = 1
    THEN Cost(1, 0)
    ELSE Cost(0, 1)

RECURSIVE PathCost(_)
PathCost(p) ==
    IF Len(p) < 2 THEN Cost(0, 0)
    ELSE CostAdd(StepLength(p[1], p[2]), PathCost(Tail(p)))

Unreached == Cost(-1, -1)

CostMin(S) == CHOOSE c \in S : \A d \in S : ~CostLess(d, c)

\* Exhaustive shortest-path costs from s: relaxation up to the fixed point.
RECURSIVE Relax(_, _)
Relax(g, dist) ==
    LET via(n) == {CostAdd(dist[c], StepLength(c, n)) :
                     c \in {c \in DOMAIN g : dist[c] # Unreached /\ RuleStep(g, c, n)}}
        next == [n \in DOMAIN g |->
                   LET cand == via(n) \cup (IF dist[n] = Unreached THEN {} ELSE {dist[n]})
                   IN  IF cand = {} THEN Unreached ELSE CostMin(cand)]
    IN  IF next = dist THEN dist ELSE Relax(g, next)

MinCosts(g, s) ==
    Relax(g, [c \in DOMAIN g |-> IF c = s /\ g[s] = 0 THEN Cost(0, 0) ELSE Unreached])

PathExists(g, s, t) == MinCosts(g, s)[t] # Unreached

Returned == pc = "done" /\ path # <<>>

WalkableEndpoints ==
    /\ start_arg \in Cells
    /\ end_arg \in Cells
    /\ grid[start_arg] = 0
    /\ grid[end_arg] = 0

\* C3: for walkable in-bounds endpoints, the summed step length of a returned
\* path equals the least cost of any rule-obeying path from start to goal.
C3_Optimal ==
    (Returned /\ WalkableEndpoints)
        => PathCost(path) = MinCosts(grid, start_arg)[end_arg]

\* a returned path that is longer than the straight-line hop count: a detour
C3_Witness ==
    /\ Returned
    /\ WalkableEndpoints
    /\ Len(path) >= 5
    /\ PathCost(path) = MinCosts(grid, start_arg)[end_arg]

\* C4: for walkable in-bounds endpoints, a returned path begins at start, ends
\* at goal, visits only in-bounds walkable cells, and consecutive cells differ
\* by an offset of DIRECTIONS_32.
C4_WellFormed ==
    (Returned /\ WalkableEndpoints) =>
        /\ path[1] = start_arg
        /\ path[Len(path)] = end_arg
        /\ \A i \in 1 .. Len(path) : path[i] \in Cells /\ grid[path[i]] = 0
        /\ \A i \in 1 .. Len(path) - 1 :
             <<path[i + 1][1] - path[i][1], path[i + 1][2] - path[i][2]>>
                 \in SeqToSet(DIRECTIONS_32)

C4_Witness ==
    /\ Returned
    /\ WalkableEndpoints
    /\ Len(path) >= 4
    /\ \E c \in Cells : grid[c] = 1
    /\ path[1] = start_arg
    /\ path[Len(path)] = end_arg

CornerGrid == [c \in Cells |-> IF c \in {<<1, 0>>, <<0, 1>>} THEN 1 ELSE 0]

\* C5: no returned path has a unit-diagonal step with a wall on either of its
\* two orthogonal neighbours; on the grid whose only walls are (1,0) and (0,1)
\* the search from (0,0) to (1,1) does not return [(0,0), (1,1)].
C5_NoCornerCut ==
    /\ Returned =>
          \A i \in 1 .. Len(path) - 1 : ~CutsCorner(grid, path[i], path[i + 1])
    /\ (pc = "done" /\ grid = CornerGrid
          /\ start_arg = <<0, 0>> /\ end_arg = <<1, 1>>)
          => path # << <<0, 0>>, <<1, 1>> >>

\* start and goal are diagonal neighbours, the direct step would cut a corner,
\* and the search returned a longer route
C5_Witness ==
    /\ Returned
    /\ CutsCorner(grid, start_arg, end_arg)
    /\ Len(path) > 2

\* C6: for walkable in-bounds endpoints, the search returns None exactly when
\* no rule-obeying path from start to goal exists.
C6_NoneIffUnreachable ==
    (pc = "done" /\ WalkableEndpoints)
        => ((path = <<>>) <=> ~PathExists(grid, start_arg, end_arg))

\* None is returned although walkable cells other than start were explored
C6_Witness ==
    /\ pc = "done"
    /\ WalkableEndpoints
    /\ path = <<>>
    /\ Cardinality(closed_list) >= 3
    /\ ~PathExists(grid, start_arg, end_arg)

(***************************************************************************)
(* find_nearest_exit.  math.dist is the square root of the squared         *)
(* distance, and on the integer cells of a grid two distances compare as   *)
(* their squares do, so min_dist holds the squared distance; Infinity      *)
(* stands for float('inf').                                                *)
(***************************************************************************)
Infinity == -1

DistSq(p, q) == (p[1] - q[1]) * (p[1] - q[1]) + (p[2] - q[2]) * (p[2] - q[2])

DistAtMost(dist, min_dist) == min_dist = Infinity \/ dist <= min_dist

\* dist < min_dist
DistLess(dist, min_dist) == min_dist = Infinity \/ dist < min_dist

\* the loop over exits, from the state (min_dist, nearest)
RECURSIVE NearestLoop(_, _, _, _)
NearestLoop(pos, es, min_dist, nearest) ==
    IF es = <<>> THEN nearest
    ELSE LET exit_tuple == Head(es)
             dist == DistSq(pos, exit_tuple)
         IN IF DistLess(dist, min_dist)
            THEN NearestLoop(pos, Tail(es), dist, exit_tuple)
            ELSE NearestLoop(pos, Tail(es), min_dist, nearest)

\* <<>> stands for None
find_nearest_exit(pos, es) == NearestLoop(pos, es, Infinity, <<>>)

FindNearestExit ==
    /\ pc = "nearest"
    /\ nearest_exit' = find_nearest_exit(person_pos, exits)
    /\ pc' = "nearest_done"
    /\ UNCHANGED <<exits, person_pos, num_people, people_positions, grid,
                   layoutVars, searchVars, runVars, batchVars>>

(***************************************************************************)
(* find_random_walkable_positions                                          *)
(***************************************************************************)
\* walkable_positions: the cells holding 0 in the order of the nested
\* loops, i over range(len(grid)) and j over range(len(grid[0])), from the
\* k-th cell of that order on
RECURSIVE WalkableFrom(_, _)
WalkableFrom(g, k) ==
    IF k >= GridW * GridH THEN <<>>
    ELSE LET cell == <<k \div GridH, k % GridH>>
         IN IF g[cell] = 0
            THEN <<cell>> \o WalkableFrom(g, k + 1)
            ELSE WalkableFrom(g, k + 1)

walkable_positions(g) == WalkableFrom(g, 0)

\* a sample with repeated draws
SampleWithReplacement(population, k) ==
    [1 .. k -> {population[i] : i \in 1 .. Len(population)}]

\* random.sample(population, k): the lists of k elements taken from k
\* different places of the population
Sample(population, k) ==
    {[n \in 1 .. k |-> population[pick[n]]] :
        pick \in {f \in [1 .. k -> 1 .. Len(population)] :
                    \A a, b \in 1 .. k : a # b => f[a] # f[b]}}

\* the lists the function can return
find_random_walkable_positions(g, n) ==
    IF Len(walkable_positions(g)) < n
    THEN {walkable_positions(g)}
    ELSE Sample(walkable_positions(g), n)

FindRandomWalkablePositions ==
    /\ pc = "place"
    /\ people_positions' \in find_random_walkable_positions(grid, num_people)
    /\ pc' = "placed_people"
    /\ UNCHANGED <<exits, person_pos, nearest_exit, num_people, grid,
                   layoutVars, searchVars, runVars, batchVars>>

(***************************************************************************)
(* Specification of find_nearest_exit on the cells of a grid, for every    *)
(* list of at most MaxExits exits.                                         *)
(***************************************************************************)
MaxExits == 3

ExitLists == UNION {[1 .. n -> Cells] : n \in 0 .. MaxExits}

InitNearest ==
    /\ pc = "nearest"
    /\ person_pos \in Cells
    /\ exits \in ExitLists
    /\ nearest_exit = <<>>
    /\ num_people = 0
    /\ people_positions = <<>>
    /\ grid = <<>>
    /\ LayoutIdle
    /\ SearchIdle
    /\ RunIdle
    /\ BatchIdle

NextNearest == FindNearestExit

SpecNearest == InitNearest /\ [][NextNearest]_vars

(***************************************************************************)
(* Specification of find_random_walkable_positions on the grids with at    *)
(* most MaxOpen walkable cells, for up to MaxPeople requested positions.   *)
(***************************************************************************)
MaxOpen == 3
MaxPeople == 3

PlaceGrids == {g \in Grids : Cardinality({c \in Cells : g[c] = 0}) <= MaxOpen}

InitPlace ==
    /\ pc = "place"
    /\ grid \in PlaceGrids
    /\ num_people \in 0 .. MaxPeople
    /\ people_positions = <<>>
    /\ exits = <<>>
    /\ person_pos = <<0, 0>>
    /\ nearest_exit = <<>>
    /\ LayoutIdle
    /\ SearchIdle
    /\ RunIdle
    /\ BatchIdle

NextPlace == FindRandomWalkablePositions

SpecPlace == InitPlace /\ [][NextPlace]_vars

(***************************************************************************)
(* The nearest exit.                                                       *)
(***************************************************************************)
\* the first place of the list whose exit is at minimal distance
FirstNearest(pos, es) ==
    CHOOSE k \in 1 .. Len(es) :
        /\ \A j \in 1 .. Len(es) : DistSq(pos, es[k]) <= DistSq(pos, es[j])
        /\ \A j \in 1 .. (k - 1) : DistSq(pos, es[j]) > DistSq(pos, es[k])

\* C9: for a non-empty list of exits find_nearest_exit returns an exit at
\* minimal Euclidean distance from the agent cell, and among several exits
\* at that distance the one that comes first in the list.
C9_NearestFirst ==
    (pc = "nearest_done" /\ exits # <<>>) =>
        nearest_exit = exits[FirstNearest(person_pos, exits)]

\* Three exits, the first farther than the other two, which are different
\* cells at the same distance: the second is returned.
C9_Witness ==
    /\ pc = "nearest_done"
    /\ Len(exits) = 3
    /\ exits[2] # exits[3]
    /\ DistSq(person_pos, exits[2]) = DistSq(person_pos, exits[3])
    /\ DistSq(person_pos, exits[1]) > DistSq(person_pos, exits[2])
    /\ nearest_exit = exits[2]

(***************************************************************************)
(* The placed agents.                                                      *)
(***************************************************************************)
WalkableCells(g) == {c \in DOMAIN g : g[c] = 0}

\* C10: find_random_walkable_positions returns pairwise distinct walkable
\* cells, min(num_people, number of walkable cells) of them, and every
\* walkable cell when fewer exist than requested.
C10_DistinctWalkable ==
    pc = "placed_people" =>
        /\ \A a, b \in 1 .. Len(people_positions) :
              a # b => people_positions[a] # people_positions[b]
        /\ \A a \in 1 .. Len(people_positions) :
              people_positions[a] \in WalkableCells(grid)
        /\ Len(people_positions) =
              Min(num_people, Cardinality(WalkableCells(grid)))
        /\ Cardinality(WalkableCells(grid)) < num_people =>
              {people_positions[a] : a \in 1 .. Len(people_positions)}
                  = WalkableCells(grid)

\* Two walkable cells and three requested: both cells are returned.
C10_Witness ==
    /\ pc = "placed_people"
    /\ num_people = 3
    /\ Cardinality(WalkableCells(grid)) = 2
    /\ Len(people_positions) = 2

\* Three walkable cells and two requested: two different cells are returned.
C10_WitnessSample ==
    /\ pc = "placed_people"
    /\ num_people = 2
    /\ Cardinality(WalkableCells(grid)) = 3
    /\ Len(people_positions) = 2
    /\ people_positions[1] # people_positions[2]

(***************************************************************************)
(* The direction table.                                                    *)
(***************************************************************************)
UnitSteps == {d \in (-1 .. 1) \X (-1 .. 1) : d # <<0, 0>>}

IsJump(d) == Abs(d[1]) > 1 \/ Abs(d[2]) > 1

\* The module is loaded, and DIRECTIONS_32 built, before any search runs.
TableBuilt == pc \in {"search_begin", "search", "done"}

\* C16: DIRECTIONS_32 holds 32 distinct offsets, none of them (0, 0): the 8
\* orthogonal and diagonal unit steps and 24 jump directions with a
\* component of absolute value greater than 1.
C16_ThirtyTwoDirections ==
    TableBuilt =>
        /\ Len(DIRECTIONS_32) = 32
        /\ \A i, j \in 1 .. Len(DIRECTIONS_32) :
              i # j => DIRECTIONS_32[i] # DIRECTIONS_32[j]
        /\ <<0, 0>> \notin SeqToSet(DIRECTIONS_32)
        /\ UnitSteps \subseteq SeqToSet(DIRECTIONS_32)
        /\ Cardinality({d \in SeqToSet(DIRECTIONS_32) : IsJump(d)}) = 24

\* The table as generate_32_directions builds it: the 8 unit steps only.
UnitStepsOnly ==
    TableBuilt => SeqToSet(DIRECTIONS_32) = UnitSteps /\ Len(DIRECTIONS_32) = 8

\* the cells a step from c by d passes over: those of the rectangle spanned
\* by its two ends, the ends excepted
PassedOver(c, d) ==
    {m \in (Min(c[1], c[1] + d[1]) .. Max(c[1], c[1] + d[1]))
           \X (Min(c[2], c[2] + d[2]) .. Max(c[2], c[2] + d[2])) :
        m # c /\ m # <<c[1] + d[1], c[2] + d[2]>>}

\* C17: there are a grid and a cell from which the neighbour loop of
\* a_star_search accepts a step longer than one cell that passes over a
\* wall cell, so that a returned path can cross a one-cell-thick wall.
C17_JumpThroughWall ==
    TableBuilt =>
        \E g \in Grids : \E c \in Cells : \E d \in OpenDirections(g, c) :
            /\ IsJump(d)
            /\ \E m \in PassedOver(c, d) : m \in Cells /\ g[m] # 0

\* Every step of a returned path moves by at most one cell in each
\* coordinate: no returned path passes over a cell.
ReturnedPathUnitSteps ==
    Returned =>
        \A i \in 1 .. (Len(path) - 1) :
            <<path[i + 1][1] - path[i][1], path[i + 1][2] - path[i][2]>>
                \in UnitSteps

(***************************************************************************)
(* Specification of a_star_search with an endpoint on a wall, on the grids *)
(* with at most MaxOpen walkable cells.                                    *)
(***************************************************************************)
InitAdjust ==
    /\ pc = "search_begin"
    /\ grid \in PlaceGrids
    /\ start_arg \in Cells
    /\ end_arg \in Cells
    /\ grid[start_arg] # 0 \/ grid[end_arg] # 0
    /\ start = start_arg
    /\ end = end_arg
    /\ open_list = {}
    /\ closed_list = {}
    /\ g_costs = <<>>
    /\ path = <<>>
    /\ LayoutIdle
    /\ SimIdle
    /\ RunIdle
    /\ BatchIdle

SpecAdjust == InitAdjust /\ [][NextSearch]_vars

\* the walkable cells of the square of radius 5 around p
WalkableNear(g, p) ==
    {c \in DOMAIN g : /\ Abs(c[1] - p[1]) <= AdjustRadius
                      /\ Abs(c[2] - p[2]) <= AdjustRadius
                      /\ g[c] = 0}

\* the cell used for p is p itself when p is walkable, and else a walkable
\* cell of the square that no other walkable cell of the square is
\* strictly closer to p than
NearestSubstitute(g, p, used) ==
    /\ g[p] = 0 => used = p
    /\ (g[p] # 0 /\ WalkableNear(g, p) # {}) =>
          /\ used \in WalkableNear(g, p)
          /\ \A o \in WalkableNear(g, p) : DistSq(p, used) <= DistSq(p, o)

\* C18: a start or goal on a wall with a walkable cell within the square of
\* radius 5 is replaced by the walkable cell of the square nearest to it;
\* a walkable start or goal is never replaced.
C18_NearestSubstitute ==
    pc # "search_begin" =>
        /\ NearestSubstitute(grid, start_arg, start)
        /\ NearestSubstitute(grid, end_arg, end)

\* A walkable endpoint is kept (the part of C18 the code satisfies).
WalkableEndpointKept ==
    pc # "search_begin" =>
        /\ grid[start_arg] = 0 => start = start_arg
        /\ grid[end_arg] = 0 => end = end_arg

\* C19: when the start or the goal is a wall with no walkable cell within
\* the square of radius 5, the search keeps the original cell and returns
\* None, also when start and goal are the same cell.
C19_NoSubstituteNoPath ==
    /\ (pc # "search_begin" /\ grid[start_arg] # 0
            /\ WalkableNear(grid, start_arg) = {}) => start = start_arg
    /\ (pc # "search_begin" /\ grid[end_arg] # 0
            /\ WalkableNear(grid, end_arg) = {}) => end = end_arg
    /\ (pc = "done"
            /\ \/ grid[start_arg] # 0 /\ WalkableNear(grid, start_arg) = {}
               \/ grid[end_arg] # 0 /\ WalkableNear(grid, end_arg) = {})
          => path = <<>>

\* The same for different start and goal cells (the part of C19 the code
\* satisfies).
NoSubstituteNoPathApart ==
    (pc = "done" /\ start_arg # end_arg
        /\ \/ grid[start_arg] # 0 /\ WalkableNear(grid, start_arg) = {}
           \/ grid[end_arg] # 0 /\ WalkableNear(grid, end_arg) = {})
      => path = <<>>

(***************************************************************************)
(* Specification of a_star_search on wide grids: the grid of WideW by      *)
(* WideH cells without a wall, and the same grid with its corner (0, 0)    *)
(* walled off.                                                             *)
(***************************************************************************)
WideW == 4
WideH == 6

WideCells == (0 .. WideW - 1) \X (0 .. WideH - 1)

WideGrids ==
    {[c \in WideCells |-> 0],
     [c \in WideCells |-> IF c \in {<<1, 0>>, <<0, 1>>} THEN 1 ELSE 0]}

InitWide ==
    /\ pc = "search_begin"
    /\ grid \in WideGrids
    /\ start_arg \in WideCells
    /\ end_arg \in {<<0, 0>>}
    /\ grid[start_arg] = 0
    /\ start = start_arg
    /\ end = end_arg
    /\ open_list = {}
    /\ closed_list = {}
    /\ g_costs = <<>>
    /\ path = <<>>
    /\ LayoutIdle
    /\ SimIdle
    /\ RunIdle
    /\ BatchIdle

SpecWide == InitWide /\ [][NextSearch]_vars

(***************************************************************************)
(* The closed list and the recorded costs.                                 *)
(***************************************************************************)
\* the nodes pushed by a step
Pushed == open_list' \ open_list

\* a step that generates neighbours closes a cell that was not closed
ExpandsOnce ==
    (pc = "search" /\ (Pushed # {} \/ g_costs' # g_costs)) =>
        \E c \in DOMAIN grid :
            c \notin closed_list /\ closed_list' = closed_list \cup {c}

\* the cell a step closes has the least cost of a rule-obeying path recorded
ClosedAtMinimum ==
    pc = "search" =>
        \A c \in closed_list' \ closed_list :
            g_costs[c] = MinCosts(grid, start)[c]

\* a step writes no cost for a closed cell: line 150 runs only under
\* new_g_cost < g_costs[(nx, ny)], so a write to a recorded cell lowers it
ClosedNeverLowered ==
    pc = "search" =>
        \A n \in Pushed : n.position \notin closed_list

\* C20: each cell is expanded at most once, the cost recorded for a cell
\* when it is first popped is the least cost of a rule-obeying path from
\* start, and the cost of a closed cell is never lowered afterwards.
C20_ClosedIsFinal ==
    [][ExpandsOnce /\ ClosedAtMinimum /\ ClosedNeverLowered]_vars

\* Each cell is expanded at most once (the part of C20 the code satisfies).
ExpandedAtMostOnce == [][ExpandsOnce]_vars

(***************************************************************************)
(* The entry points: the batch loop of main.py and the main programs of    *)
(* modules/pathfinding.py and pathfinding.py.                              *)
(***************************************************************************)
MaxLayouts == 3

\* An entry of the directory `layouts`: whether it is a directory, whether
\* it is named 'latest', and which of the three artifacts it holds.  A path
\* that does not exist holds no artifact.
Entries ==
    {e \in [isdir : BOOLEAN, latest : BOOLEAN, walkmap : BOOLEAN,
            config : BOOLEAN, exits : BOOLEAN] :
        ~e.isdir => ~e.latest /\ ~e.walkmap /\ ~e.config /\ ~e.exits}

\* load_map_data: FileNotFoundError when an artifact is missing
load_map_data(e) ==
    IF ~e.walkmap THEN "FileNotFoundError"
    ELSE IF ~e.config THEN "FileNotFoundError"
    ELSE IF ~e.exits THEN "FileNotFoundError"
    ELSE "data"

\* run_pathfinding without the try statement
run_pathfinding_uncaught(e) ==
    IF load_map_data(e) = "FileNotFoundError" THEN "FileNotFoundError"
    ELSE "results"

\* run_pathfinding, lines 304-308 and 466: None when load_map_data raises
\* FileNotFoundError, the results dictionary otherwise
run_pathfinding(e) ==
    IF load_map_data(e) = "FileNotFoundError" THEN "None"
    ELSE "results"

\* main.py, one iteration of the loop over os.listdir(layouts_dir)
MainLoop ==
    /\ pc = "main"
    /\ batch_index < Len(layouts)
    /\ LET folder == layouts[batch_index + 1]
       IN  IF folder.isdir /\ ~folder.latest
           THEN LET outcome == run_pathfinding(folder)
                IN  /\ batch_log' = Append(batch_log,
                                           [folder |-> batch_index + 1,
                                            results |-> outcome])
                    /\ IF outcome = "FileNotFoundError"
                       THEN pc' = "exited" /\ exit_code' = 1
                       ELSE UNCHANGED <<pc, exit_code>>
           ELSE UNCHANGED <<batch_log, pc, exit_code>>
    /\ batch_index' = batch_index + 1
    /\ UNCHANGED <<program, layouts, layoutVars, grid, searchVars, simVars,
                   runVars>>

\* main.py, the loop is exhausted and the interpreter exits
MainEnd ==
    /\ pc = "main"
    /\ batch_index = Len(layouts)
    /\ pc' = "exited"
    /\ exit_code' = 0
    /\ UNCHANGED <<program, layouts, batch_index, batch_log, layoutVars,
                   grid, searchVars, simVars, runVars>>

\* modules/pathfinding.py, lines 469-503: run_pathfinding on the layout
\* directory of the command line, a message when it returns results, and
\* the end of the script
ModulesPathfindingMain ==
    /\ pc = "modules/pathfinding.py"
    /\ LET outcome == run_pathfinding(layouts[1])
       IN  /\ batch_log' = <<[folder |-> 1, results |-> outcome]>>
           /\ exit_code' = IF outcome = "FileNotFoundError" THEN 1 ELSE 0
    /\ batch_index' = 1
    /\ pc' = "exited"
    /\ UNCHANGED <<program, layouts, layoutVars, grid, searchVars, simVars,
                   runVars>>

\* exit() without an argument
exit == 0

\* pathfinding.py, lines 151-160 and the rest of the script: exit() when
\* np.load raises FileNotFoundError, the simulation otherwise
PathfindingMain ==
    /\ pc = "pathfinding.py"
    /\ IF load_map_data(layouts[1]) = "FileNotFoundError"
       THEN /\ batch_log' = <<[folder |-> 1, results |-> "None"]>>
            /\ exit_code' = exit
       ELSE /\ batch_log' = <<[folder |-> 1, results |-> "results"]>>
            /\ exit_code' = 0
    /\ batch_index' = 1
    /\ pc' = "exited"
    /\ UNCHANGED <<program, layouts, layoutVars, grid, searchVars, simVars,
                   runVars>>

\* the lists os.listdir can return: no two entries are named 'latest'
LayoutLists ==
    {ls \in UNION {[1 .. n -> Entries] : n \in 0 .. MaxLayouts} :
        \A i, j \in 1 .. Len(ls) : ls[i].latest /\ ls[j].latest => i = j}

InitBatch ==
    /\ program \in {"main.py", "modules/pathfinding.py", "pathfinding.py"}
    /\ pc = IF program = "main.py" THEN "main" ELSE program
    /\ layouts \in LayoutLists
    /\ program # "main.py" => Len(layouts) = 1
    /\ batch_index = 0
    /\ batch_log = <<>>
    /\ exit_code = -1
    /\ grid = <<>>
    /\ LayoutIdle
    /\ SearchIdle
    /\ SimIdle
    /\ RunIdle

NextBatch ==
    \/ MainLoop
    \/ MainEnd
    \/ ModulesPathfindingMain
    \/ PathfindingMain

SpecBatch == InitBatch /\ [][NextBatch]_vars

\* a layout directory as main.py takes it
IsLayoutDir(e) == e.isdir /\ ~e.latest

\* the log entries of the folder at place i of the listing
LogOf(i) == {k \in 1 .. Len(batch_log) : batch_log[k].folder = i}

\* C13: the batch loop of main.py hands every layout directory to
\* run_pathfinding; a layout with a missing artifact yields no result, and
\* the loop goes on to the entries after it: the program ends only when
\* every entry has been taken.
C13_BatchContinues ==
    program = "main.py" =>
        /\ \A i \in 1 .. batch_index :
              IsLayoutDir(layouts[i]) => Cardinality(LogOf(i)) = 1
        /\ \A k \in 1 .. Len(batch_log) :
              LET e == layouts[batch_log[k].folder]
              IN  batch_log[k].results =
                    IF e.walkmap /\ e.config /\ e.exits THEN "results"
                    ELSE "None"
        /\ pc = "exited" => batch_index = Len(layouts) /\ exit_code = 0

\* a finished batch in which a layout with a missing artifact comes before
\* a complete layout
C13_Witness ==
    /\ program = "main.py"
    /\ pc = "exited"
    /\ \E i, j \in 1 .. Len(layouts) :
          /\ i < j
          /\ IsLayoutDir(layouts[i])
          /\ load_map_data(layouts[i]) = "FileNotFoundError"
          /\ \E k \in LogOf(i) : batch_log[k].results = "None"
          /\ IsLayoutDir(layouts[j])
          /\ \E k \in LogOf(j) : batch_log[k].results = "results"

\* C14: the command-line entry point ends with exit code 0 when the
\* simulation succeeds and with a non-zero exit code when a required
\* artifact is missing.
C14_ExitCode ==
    (pc = "exited" /\ program \in {"modules/pathfinding.py", "pathfinding.py"}) =>
        (exit_code = 0 <=>
            (layouts[1].walkmap /\ layouts[1].config /\ layouts[1].exits))

\* Every entry point ends with exit code 0, whatever artifacts are missing.
ExitCodeAlwaysZero == pc = "exited" => exit_code = 0

(***************************************************************************)
(* run_pathfinding: the placement of the agents, the loop over the agents  *)
(* and the statistics of the returned dictionary.                          *)
(***************************************************************************)
\* the entry of times_s, distances_m and scaled_steps_list of an agent
\* without a path
NoTime == Cost(-1, -1)

\* path_distance_meters before the division by the resolution: the sum of
\* math.dist over the steps of the path
path_distance_px(p) ==
    IF Len(p) < 2 THEN Cost(0, 0)
    ELSE LET step(i) == move_cost(p[i + 1][1] - p[i][1], p[i + 1][2] - p[i][2])
             sum[i \in 0 .. Len(p) - 1] ==
                 IF i = 0 THEN Cost(0, 0) ELSE CostAdd(sum[i - 1], step(i))
         IN  sum[Len(p) - 1]

\* a count that stops at the first occurrence
CountOnce(list, key) ==
    IF \E i \in 1 .. Len(list) : list[i] = key THEN 1 ELSE 0

\* list.count(key)
Count(list, key) ==
    LET count[i \in 0 .. Len(list)] ==
            IF i = 0 THEN 0
            ELSE count[i - 1] + (IF list[i] = key THEN 1 ELSE 0)
    IN  count[Len(list)]

\* a count of all entries of paths
all_paths(ps) == Len(ps)

\* sum(1 for p in paths if p is not None)
successful_paths(ps) ==
    LET count[i \in 0 .. Len(ps)] ==
            IF i = 0 THEN 0
            ELSE count[i - 1] + (IF ps[i] # <<>> THEN 1 ELSE 0)
    IN  count[Len(ps)]

\* the rate over the agents that were placed
success_rate_of_placed(ps, n) ==
    IF n > 0 /\ Len(ps) > 0
    THEN [num |-> successful_paths(ps) * 100, den |-> Len(ps)]
    ELSE [num |-> 0, den |-> 1]

\* (successful_paths / num_people) * 100 if num_people > 0 else 0, kept as
\* a fraction
success_rate(ps, n) ==
    IF n > 0 THEN [num |-> successful_paths(ps) * 100, den |-> n]
    ELSE [num |-> 0, den |-> 1]

\* max(valid_times) if valid_times else 0.0; the times are the path
\* lengths divided by resolution and speed, so their order is the order of
\* the lengths
total_evac_time_s(ts) ==
    LET best[i \in 0 .. Len(ts)] ==
            IF i = 0 THEN NoTime
            ELSE IF ts[i] = NoTime THEN best[i - 1]
            ELSE IF best[i - 1] = NoTime THEN ts[i]
            ELSE IF CostLess(best[i - 1], ts[i]) THEN ts[i]
            ELSE best[i - 1]
    IN  IF best[Len(ts)] = NoTime THEN Cost(0, 0) ELSE best[Len(ts)]

\* Lines 330-336: the next agent, its nearest exit, and the call of
\* a_star_search; with an empty exit list the exit is None and the call
\* raises TypeError
RunAgent ==
    /\ pc = "placed_people"
    /\ agent < Len(people_positions)
    /\ LET start_pos == people_positions[agent + 1]
           target == find_nearest_exit(start_pos, exits)
       IN  /\ person_pos' = start_pos
           /\ nearest_exit' = target
           /\ target_exits' = Append(target_exits, target)
           /\ IF target = <<>>
              THEN /\ pc' = "TypeError"
                   /\ UNCHANGED <<start_arg, end_arg>>
              ELSE /\ pc' = "search_begin"
                   /\ start_arg' = start_pos
                   /\ end_arg' = target
    /\ agent' = agent + 1
    /\ UNCHANGED <<start, end, open_list, closed_list, g_costs, path, grid,
                   exits, num_people, people_positions, paths, times_s,
                   results, layoutVars, batchVars>>

\* Lines 337-352: the path of the agent, or None, goes into the lists
RunRecord ==
    /\ pc = "done"
    /\ paths' = Append(paths, path)
    /\ times_s' = Append(times_s, IF path # <<>> THEN path_distance_px(path)
                                  ELSE NoTime)
    /\ pc' = "placed_people"
    /\ UNCHANGED <<agent, target_exits, results, grid, searchVars, simVars,
                   layoutVars, batchVars>>

\* Lines 355-358 and 428-466: the statistics and the returned dictionary
RunFinish ==
    /\ pc = "placed_people"
    /\ agent = Len(people_positions)
    /\ results' =
         [exit_usage |-> [e \in {exits[i] : i \in 1 .. Len(exits)} |->
                             Count(target_exits, e)],
          success_rate |-> success_rate(paths, num_people),
          total_evac_time_s |-> total_evac_time_s(times_s)]
    /\ pc' = "finished"
    /\ UNCHANGED <<agent, paths, target_exits, times_s, grid, searchVars,
                   simVars, layoutVars, batchVars>>

(***************************************************************************)
(* Specification of run_pathfinding on the grids with at most MaxWalls     *)
(* walls, for up to MaxAgents requested agents and up to MaxRunExits exits *)
(* on two cells.                                                           *)
(***************************************************************************)
MaxWalls == 2
MaxAgents == 2
MaxRunExits == 2

RunGrids == {g \in Grids : Cardinality({c \in Cells : g[c] # 0}) <= MaxWalls}

RunExitCells == {<<0, 1>>, <<GridW - 1, GridH - 1>>}

RunExitLists == UNION {[1 .. n -> RunExitCells] : n \in 0 .. MaxRunExits}

InitRun ==
    /\ pc = "place"
    /\ grid \in RunGrids
    /\ exits \in RunExitLists
    /\ num_people \in 0 .. MaxAgents
    /\ people_positions = <<>>
    /\ person_pos = <<0, 0>>
    /\ nearest_exit = <<>>
    /\ RunIdle
    /\ BatchIdle
    /\ LayoutIdle
    /\ SearchIdle

NextRun ==
    \/ FindRandomWalkablePositions
    \/ RunAgent
    \/ AStarBegin
    \/ AStarStep
    \/ AStarFail
    \/ RunRecord
    \/ RunFinish

SpecRun == InitRun /\ [][NextRun]_vars

(***************************************************************************)
(* The report of run_pathfinding.                                          *)
(***************************************************************************)
Reported == pc = "finished"

ExitCells == {exits[i] : i \in 1 .. Len(exits)}

Agents == 1 .. Len(people_positions)

\* the walkable cells of g form one component under the movement rules
SingleComponent(g) ==
    \A a \in WalkableCells(g) :
        LET m == MinCosts(g, a)
        IN  \A b \in WalkableCells(g) : m[b] # Unreached

\* the first case of C11: one component that holds every exit, and enough
\* walkable cells for the requested agents
ConnectedCase ==
    /\ SingleComponent(grid)
    /\ ExitCells \subseteq WalkableCells(grid)
    /\ Cardinality(WalkableCells(grid)) >= num_people

\* agent i stands where its assigned exit cannot be reached
PocketAgent(i) == ~PathExists(grid, people_positions[i], target_exits[i])

FullRate == results.success_rate.num = 100 * results.success_rate.den

BelowFullRate == results.success_rate.num < 100 * results.success_rate.den

\* C11 as stated: on a grid whose walkable cells form one component that
\* holds every exit, with at least num_people walkable cells, the reported
\* success_rate is 100; when some agent is placed where its assigned exit
\* is unreachable, the reported success_rate is below 100.
C11_SuccessRate ==
    Reported =>
        /\ ConnectedCase => FullRate
        /\ (\E i \in Agents : PocketAgent(i)) => BelowFullRate

\* C11 amended: the same for at least one requested agent and at least one
\* exit, and for an agent whose assigned exit is a walkable cell; the run
\* ends without a report only when the exit list is empty.
C11_SuccessRateWithAgents ==
    /\ pc = "TypeError" => exits = <<>>
    /\ Reported =>
        /\ (ConnectedCase /\ num_people >= 1 /\ exits # <<>>) => FullRate
        /\ (\E i \in Agents : PocketAgent(i) /\ grid[target_exits[i]] = 0)
              => BelowFullRate

\* two agents on a connected grid with a wall and two exits, both found
C11_Witness ==
    /\ Reported
    /\ ConnectedCase
    /\ num_people = 2
    /\ Len(paths) = 2
    /\ Cardinality(ExitCells) = 2
    /\ \E c \in Cells : grid[c] # 0
    /\ FullRate

\* an agent in a pocket whose assigned exit is walkable, and a rate below 100
PocketReported ==
    /\ Reported
    /\ \E i \in Agents : PocketAgent(i) /\ grid[target_exits[i]] = 0
    /\ BelowFullRate

\* no agent requested on a connected grid: the reported rate is 0
NoAgentRateZero ==
    (Reported /\ num_people = 0) => results.success_rate.num = 0

\* an agent in a pocket next to a wall cell that is its assigned exit
PocketAgentWallExit ==
    /\ Reported
    /\ \E i \in Agents : PocketAgent(i) /\ grid[target_exits[i]] # 0
    /\ FullRate

RECURSIVE SetSum(_, _)
SetSum(f, S) ==
    IF S = {} THEN 0
    ELSE LET e == CHOOSE x \in S : TRUE
         IN  f[e] + SetSum(f, S \ {e})

\* C12: in the report, exit_usage[e] is the number of placed agents whose
\* assigned exit is e, with or without a path, and the counts of the
\* distinct exits add up to the number of placed agents.
C12_ExitUsage ==
    Reported =>
        /\ DOMAIN results.exit_usage = ExitCells
        /\ \A e \in ExitCells :
              results.exit_usage[e] =
                  Cardinality({i \in Agents : target_exits[i] = e})
        /\ Len(target_exits) = Len(people_positions)
        /\ (exits # <<>> \/ Agents = {}) =>
              SetSum(results.exit_usage, ExitCells) = Len(people_positions)

\* two agents with the same assigned exit, one of them without a path
C12_Witness ==
    /\ Reported
    /\ Len(people_positions) = 2
    /\ target_exits[1] = target_exits[2]
    /\ \E i \in Agents : paths[i] = <<>>
    /\ \E i \in Agents : paths[i] # <<>>
    /\ Cardinality(ExitCells) = 2
    /\ results.exit_usage[target_exits[1]] = 2

\* the cell a_star_search takes for the exit t
GoalOf(t) == Adjust(grid, Clamp(grid, t))

\* the outcome of agent i as a function of the grid, its cell and its exit
OutcomeOf(i) ==
    MinCosts(grid, people_positions[i])[GoalOf(target_exits[i])]

\* the greatest of a set of costs, 0 for the empty set
CostMax(S) ==
    IF S = {} THEN Cost(0, 0)
    ELSE CHOOSE c \in S : \A d \in S : ~CostLess(c, d)

\* the outcome of every agent and the statistics are functions of the
\* grid and of the agents' cells and exits, whatever searches ran before
OutcomeDetermined ==
    Reported =>
        /\ Len(paths) = Len(people_positions)
        /\ \A i \in Agents :
              /\ paths[i] # <<>> <=> OutcomeOf(i) # Unreached
              /\ paths[i] # <<>> =>
                    /\ paths[i][1] = people_positions[i]
                    /\ paths[i][Len(paths[i])] = GoalOf(target_exits[i])
                    /\ path_distance_px(paths[i]) = OutcomeOf(i)
        /\ results.success_rate.num * (IF num_people > 0 THEN 1 ELSE 0) =
              100 * Cardinality({i \in Agents : OutcomeOf(i) # Unreached})
                  * (IF num_people > 0 THEN 1 ELSE 0)
        /\ \A e \in ExitCells :
              results.exit_usage[e] =
                  Cardinality({i \in Agents : target_exits[i] = e})
        /\ results.total_evac_time_s =
              CostMax({OutcomeOf(i) : i \in Agents} \ {Unreached})

Splitting == pc = "split" /\ stack # <<>>

\* the bounds are at least min_size wide and high
BoundsFitMinSize ==
    params.width >= params.min_size /\ params.height >= params.min_size

\* the leaf condition of the specification, on the running activation
LeafCondition(f) ==
    \/ f.depth >= params.max_depth
    \/ f.width < 2 * params.min_size
    \/ f.height < 2 * params.min_size

\* no pending activation is deeper than max_depth, and within bounds that
\* fit min_size no activation and no room is smaller than min_size
SplitSizes ==
    /\ \A k \in 1 .. Len(stack) : stack[k].depth <= params.max_depth
    /\ BoundsFitMinSize =>
          /\ \A k \in 1 .. Len(stack) :
                stack[k].width >= params.min_size /\
                stack[k].height >= params.min_size
          /\ \A i \in 1 .. Len(rooms) :
                rooms[i].width >= params.min_size /\
                rooms[i].height >= params.min_size

\* a step emits a leaf exactly under the leaf condition; otherwise it
\* splits one extent at an offset in [min_size, extent - min_size] and
\* recurses on both parts one level deeper
SplitStep ==
    Splitting =>
        LET f == Head(stack)
        IN  /\ (rooms' # rooms) <=> LeafCondition(f)
            /\ rooms' # rooms =>
                  /\ rooms' = Append(rooms, Room(f.x, f.y, f.width, f.height))
                  /\ stack' = Tail(stack)
            /\ rooms' = rooms =>
                  /\ Len(stack') = Len(stack) + 1
                  /\ stack'[1].depth = f.depth + 1
                  /\ stack'[2].depth = f.depth + 1
                  /\ \/ /\ stack'[1].width = f.width
                        /\ stack'[1].height >= params.min_size
                        /\ stack'[1].height <= f.height - params.min_size
                        /\ stack'[2].height = f.height - stack'[1].height
                     \/ /\ stack'[1].height = f.height
                        /\ stack'[1].width >= params.min_size
                        /\ stack'[1].width <= f.width - params.min_size
                        /\ stack'[2].width = f.width - stack'[1].width

\* C22: every split offset of split_space lies in [minSize, extent -
\* minSize], so within bounds at least minSize wide and high every leaf room
\* is at least minSize wide and high; a node becomes a leaf exactly when
\* depth >= maxDepth or its width or height is below 2*minSize, and the
\* recursion depth never exceeds maxDepth.
C22_SplitBounds == []SplitSizes /\ [][SplitStep]_vars

\* a finished run that split at both depths and has a room exactly
\* min_size wide
C22_Witness ==
    /\ pc # "split"
    /\ BoundsFitMinSize
    /\ params.max_depth = 2
    /\ Len(rooms) >= 3
    /\ \E i \in 1 .. Len(rooms) : rooms[i].width = params.min_size

(***************************************************************************)
(* The doors that ensure_connectivity creates.                             *)
(***************************************************************************)
\* the number of entries of a door list that are not exits
RECURSIVE InteriorCount(_)
InteriorCount(ds) ==
    IF ds = <<>> THEN 0
    ELSE (IF Head(ds).is_exit THEN 0 ELSE 1) + InteriorCount(Tail(ds))

InteriorDoors(rs) == InteriorCount(AllDoors(rs))

\* the pairs of rooms joined in the door graph
DoorPairs(rs) ==
    {pair \in SUBSET (1 .. Len(rs)) :
        /\ Cardinality(pair) = 2
        /\ \E i, j \in pair : i # j /\ DoorEdge(rs, i, j)}

\* ensure_connectivity has entered its loop
Growing == pc = "grow" \/ (pc = "connected" /\ connected # {})

\* one door per joined room: the doors, the edges of the door graph and
\* edges_added all count the connected set less its first room; the edges
\* span the connected set, so the door graph is a tree on it; the budget
\* test of the loop never fails
DoorTree ==
    /\ Growing =>
          /\ InteriorDoors(rooms) = Cardinality(connected) - 1
          /\ edges_added = Cardinality(connected) - 1
          /\ Cardinality(DoorPairs(rooms)) = Cardinality(connected) - 1
          /\ ReachableRooms(rooms, {1}) = connected
          /\ edges_added < Len(rooms) * 2
    /\ (pc = "connected" /\ connected = {}) => InteriorDoors(rooms) = 0

\* an iteration that joins room j appends one door to one room
OneDoorPerJoin ==
    (pc = "grow" /\ rooms' # rooms) =>
        /\ Cardinality(connected' \ connected) = 1
        /\ connected \subseteq connected'
        /\ Cardinality({i \in 1 .. Len(rooms) :
                           rooms'[i].doors # rooms[i].doors}) = 1
        /\ InteriorDoors(rooms') = InteriorDoors(rooms) + 1

\* the loop ends with every room connected or without an edge to be found
BudgetNeverStops ==
    (pc = "grow" /\ pc' = "connected") =>
        \/ Cardinality(connected) = Len(rooms)
        \/ \A i \in connected : FirstUnconnected(adjacency[i], connected) = 0

\* C28: ensure_connectivity adds exactly one door per room that joins the
\* connected set and appends each door to exactly one room: on completion
\* the number of interior doors is the size of the connected set minus one,
\* the door graph has no cycle, and the 2*roomCount edge budget is never the
\* reason the loop stops.
C28_OneDoorPerRoom ==
    []DoorTree /\ [][OneDoorPerJoin /\ BudgetNeverStops]_vars

\* four rooms joined by three doors
C28_Witness ==
    /\ pc = "connected"
    /\ Len(rooms) = 4
    /\ connected = 1 .. 4
    /\ InteriorDoors(rooms) = 3

\* a run that ends with a room outside the connected set
PartlyConnected ==
    /\ pc = "connected"
    /\ connected # {}
    /\ Cardinality(connected) < Len(rooms)

(***************************************************************************)
(* A run of ensure_connectivity that leaves a room unconnected.            *)
(***************************************************************************)
\* ensure_connectivity has returned with a room outside the connected set
StoppedPartly ==
    /\ pc \in {"connected", "placed", "rastered", "saved"}
    /\ connected # {}
    /\ Cardinality(connected) < Len(rooms)

\* the caller has received a flag or a warning
Flagged ==
    /\ connectivity_report # <<>>
    /\ \/ connectivity_report.returned # "None"
       \/ connectivity_report.printed # <<>>

\* C21: when ensure_connectivity stops with a room still outside the
\* connected set, the condition is reported to the caller as a warning or a
\* flag, no error is raised, and rasterization proceeds with the doors
\* created so far.
C21_PartialReported == StoppedPartly => Flagged

\* Whatever the connected set, ensure_connectivity returns None and prints
\* nothing.
ConnectivityNeverReported ==
    pc \in {"connected", "placed", "rastered", "saved"} =>
        connectivity_report = ensure_connectivity_returns

(***************************************************************************)
(* The exits of the generated layout.                                      *)
(***************************************************************************)
ExitsPlaced == pc \in {"placed", "rastered", "saved"}

\* the exit doors of a room
ExitDoorsOf(r) == {k \in 1 .. Len(r.doors) : r.doors[k].is_exit}

\* the centre of a door rectangle, in half units
DoorCenter(d) == <<d.x + d.width \div 2, d.y + d.height \div 2>>

\* the midpoints, in half units, of the walls of r that lie on the outer
\* perimeter of the floor
OuterWallMidpoints(r, width_total, height_total) ==
    (IF r.x = 0 THEN {<<0, 2 * r.y + r.height>>} ELSE {})
    \cup (IF r.y = 0 THEN {<<2 * r.x + r.width, 0>>} ELSE {})
    \cup (IF r.x + r.width = width_total
          THEN {<<2 * width_total, 2 * r.y + r.height>>} ELSE {})
    \cup (IF r.y + r.height = height_total
          THEN {<<2 * r.x + r.width, 2 * height_total>>} ELSE {})

\* C23: after exit placement on a generated layout the number of exit doors
\* is 1 or 2, each exit door belongs to a room that touches the outer
\* perimeter and lies on one of that room's outer walls, and no room has
\* more than one exit.
C23_ExitsOnPerimeter ==
    ExitsPlaced =>
        /\ exits_created \in {1, 2}
        /\ SeqSum([i \in 1 .. Len(rooms) |->
                      Cardinality(ExitDoorsOf(rooms[i]))]) = exits_created
        /\ \A i \in 1 .. Len(rooms) :
              /\ Cardinality(ExitDoorsOf(rooms[i])) <= 1
              /\ \A k \in ExitDoorsOf(rooms[i]) :
                    DoorCenter(rooms[i].doors[k]) \in
                        OuterWallMidpoints(rooms[i], params.width,
                                           params.height)

\* two exits on a layout of at least three rooms
C23_Witness ==
    /\ ExitsPlaced
    /\ exits_created = 2
    /\ Len(rooms) >= 3
    /\ Cardinality({i \in 1 .. Len(rooms) : ExitDoorsOf(rooms[i]) # {}}) = 2

(***************************************************************************)
(* The saved exit positions against the cells of the grid.                 *)
(***************************************************************************)
\* C25: for every exit door created by Room.create_exit, the position that
\* save_exit_positions writes is a cell of the grid of the same layout that
\* holds 0, so a_star_search keeps it as the goal.
C25_ExitsWalkable ==
    pc = "saved" =>
        /\ Len(exit_positions) = exits_created
        /\ \A k \in 1 .. Len(exit_positions) :
              /\ exit_positions[k] \in DOMAIN grid
              /\ grid[exit_positions[k]] = 0
              /\ Adjust(grid, Clamp(grid, exit_positions[k])) = exit_positions[k]

\* two saved exits, one of them on the right or bottom wall, where the
\* centre of the door is clamped to the last row or column
C25_Witness ==
    /\ pc = "saved"
    /\ Len(exit_positions) = 2
    /\ \E k \in 1 .. 2 :
          \/ exit_positions[k][1] = Px(params.width, resolution) - 1
          \/ exit_positions[k][2] = Px(params.height, resolution) - 1
    /\ \A k \in 1 .. 2 : grid[exit_positions[k]] = 0

(***************************************************************************)
(* Specification of split_space, ensure_connectivity and                   *)
(* create_walkability_map on a floor of FloorTenthsWide by FloorTenthsHigh *)
(* tenths of a metre, with rooms of at least the door width plus twice the *)
(* wall thickness and splits on multiples of a tenth of a metre.           *)
(***************************************************************************)
FloorTenthsWide == 48
FloorTenthsHigh == 27
FloorSplits == 2

Tenth == UnitsPerMeter \div 10

\* the door width plus twice the wall thickness of 0.1 m
MinRoomSize == door_width + 2 * Tenth

FloorInputs ==
    [x : {0}, y : {0}, width : {FloorTenthsWide * Tenth},
     height : {FloorTenthsHigh * Tenth}, max_depth : 1 .. FloorSplits,
     min_size : {MinRoomSize}, grain : {Tenth}]

\* create_walkability_map called on the rooms that ensure_connectivity left
RasterLayout ==
    /\ pc = "connected"
    /\ grid' = create_walkability_map(rooms, params.width, params.height,
                                      resolution)
    /\ pc' = "rastered"
    /\ UNCHANGED <<layoutVars, searchVars, simVars, runVars, batchVars>>

InitFloor ==
    /\ pc = "split"
    /\ params \in FloorInputs
    /\ stack = <<Frame(params.x, params.y, params.width, params.height, 0)>>
    /\ resolution \in GenerateResolutions
    /\ rooms = <<>>
    /\ adjacency = <<>>
    /\ connected = {}
    /\ edges_added = 0
    /\ connectivity_report = <<>>
    /\ exits_created = 0
    /\ office_doors = <<>>
    /\ office_exits = <<>>
    /\ exit_positions = <<>>
    /\ grid = <<>>
    /\ SearchIdle
    /\ SimIdle
    /\ RunIdle
    /\ BatchIdle

NextFloor ==
    \/ SplitSpace
    \/ EnsureConnectivityBegin
    \/ ConnectStep
    \/ ConnectExit
    \/ RasterLayout

SpecFloor == InitFloor /\ [][NextFloor]_vars

(***************************************************************************)
(* The doors between the room interiors.                                   *)
(***************************************************************************)
\* the cells one rule-obeying step away from a cell of S
StepsFrom(g, S) ==
    UNION {{n \in {<<c[1] + d[1], c[2] + d[2]>> : d \in SeqToSet(DIRECTIONS_32)} :
              RuleStep(g, c, n)} : c \in S}

\* the cells reachable from the cells of `seen`, the cells of `frontier`
\* being the ones whose neighbours are not yet taken
RECURSIVE Flood(_, _, _)
Flood(g, seen, frontier) ==
    LET more == StepsFrom(g, frontier) \ seen
    IN  IF more = {} THEN seen ELSE Flood(g, seen \cup more, more)

\* every walkable cell reaches every other
OneComponent(g) ==
    LET walkable == {c \in DOMAIN g : g[c] = 0}
    IN  walkable # {} =>
            LET first == CHOOSE c \in walkable : TRUE
            IN  Flood(g, {first}, {first}) = walkable

\* cell c is a cell of the inset interior of the room or shares an edge
\* with one
TouchesInterior(c, room, res) ==
    \E n \in {c, <<c[1] + 1, c[2]>>, <<c[1] - 1, c[2]>>,
              <<c[1], c[2] + 1>>, <<c[1], c[2] - 1>>} :
        InShrunkRoom(n, room, res, wall_thickness(res))

\* the carved rectangle of the door holds a walkable cell at the interior
DoorOpensInto(g, door, room, res) ==
    \E c \in DOMAIN g :
        /\ InDoorRect(c, door, res)
        /\ g[c] = 0
        /\ TouchesInterior(c, room, res)

\* every interior door opens into both rooms it joins
DoorsJoinInteriors ==
    \A i \in 1 .. Len(rooms) :
        \A k \in 1 .. Len(rooms[i].doors) :
            LET door == rooms[i].doors[k]
            IN  ~door.is_exit =>
                  /\ DoorOpensInto(grid, door, rooms[i], resolution)
                  /\ \E j \in rooms[i].connected_to :
                        /\ DoorTo(rooms[i], rooms[j]) = <<door>>
                        /\ DoorOpensInto(grid, door, rooms[j], resolution)

\* C24: on a layout of split_space with minSize at least the door width
\* plus twice the wall thickness, after ensure_connectivity and
\* create_walkability_map the carved rectangle of every interior door holds
\* walkable cells at the inset interior of both rooms it joins, and every
\* walkable cell reaches every other under the movement rules of the search.
C24_InteriorsConnected ==
    (pc = "rastered" /\ params.min_size >= MinRoomSize) =>
        /\ DoorsJoinInteriors
        /\ OneComponent(grid)

\* four rooms, two of which share a wall over no more than 0.2 m and are
\* joined by a door
C24_Witness ==
    /\ pc = "rastered"
    /\ params.min_size >= MinRoomSize
    /\ Len(rooms) = 4
    /\ \E i, j \in 1 .. 4 :
          /\ j \in rooms[i].connected_to
          /\ rooms[i].doors # <<>>
          /\ rooms[i].x + rooms[i].width = rooms[j].x
          /\ Min(rooms[i].y + rooms[i].height, rooms[j].y + rooms[j].height)
               - Max(rooms[i].y, rooms[j].y) <= 2 * Tenth

(***************************************************************************)
(* Successive split_space runs in one process: the module-level list       *)
(* `rooms` is created once, when the module is loaded, and split_space     *)
(* only appends to it.                                                     *)
(***************************************************************************)
MaxRunRooms == 1

\* A further top-level call split_space(x, y, width, height, 0, max_depth,
\* min_size) after an earlier run has returned.  Nothing on the way into the
\* function touches `rooms`.  The model makes the call while the list holds
\* at most MaxRunRooms rooms.
SplitSpaceCall ==
    /\ pc \in {"connect", "connected"}
    /\ Len(rooms) <= MaxRunRooms
    /\ params' \in LayoutInputs
    /\ stack' = <<Frame(params'.x, params'.y, params'.width, params'.height, 0)>>
    /\ pc' = "split"
    /\ UNCHANGED <<rooms, adjacency, connected, edges_added,
                   connectivity_report, rasterVars, notLayoutVars>>

NextRuns ==
    \/ SplitSpaceCall
    \/ SplitSpace
    \/ EnsureConnectivityBegin
    \/ ConnectStep
    \/ ConnectExit

SpecRuns == InitLayout /\ [][NextRuns]_vars

\* C27: whenever ensure_connectivity or create_walkability_map may consume
\* the room list (no split_space run is in progress), the list holds exactly
\* the leaves of the most recent split_space run: it tiles the bounding
\* rectangle of that run without overlap.
C27_LatestLeavesOnly ==
    (pc \in {"connect", "connected"}) => Tiles(rooms, params)

\* what the list holds instead: every leaf of every run so far
RoomsAccumulate == [][Len(rooms') >= Len(rooms)]_vars

(***************************************************************************)
(* Specification of run_pathfinding on crowded grids: at most MaxFree      *)
(* walkable cells for up to MaxCrowd requested agents.                     *)
(***************************************************************************)
MaxFree == 2
MaxCrowd == 3

CrowdGrids == {g \in Grids : Cardinality({c \in Cells : g[c] = 0}) <= MaxFree}

InitCrowd ==
    /\ pc = "place"
    /\ grid \in CrowdGrids
    /\ exits \in RunExitLists
    /\ num_people \in 1 .. MaxCrowd
    /\ people_positions = <<>>
    /\ person_pos = <<0, 0>>
    /\ nearest_exit = <<>>
    /\ RunIdle
    /\ BatchIdle
    /\ LayoutIdle
    /\ SearchIdle

SpecCrowd == InitCrowd /\ [][NextRun]_vars

AllPlacedFound == \A i \in 1 .. Len(paths) : paths[i] # <<>>

\* fewer agents placed than requested
Shortfall == Len(people_positions) < num_people

\* C26 as stated: for num_people >= 1 the reported success_rate is 100
\* exactly when every placed agent found a path, also when fewer agents
\* than requested were placed.
C26_FullRateIffAllPlacedFound ==
    (Reported /\ num_people >= 1) => (FullRate <=> AllPlacedFound)

\* C26 amended: for num_people >= 1 the reported success_rate is the share
\* of the requested agents that found a path; it is 100 exactly when
\* num_people agents were placed and every one of them found a path, and it
\* is below 100 whenever fewer agents than requested were placed.
C26_FullRateIffAllRequestedFound ==
    (Reported /\ num_people >= 1) =>
        /\ Len(paths) = Len(people_positions)
        /\ Len(people_positions) =
             Min(num_people, Cardinality({c \in Cells : grid[c] = 0}))
        /\ FullRate <=> (AllPlacedFound /\ ~Shortfall)
        /\ Shortfall => BelowFullRate

\* three agents requested, two walkable cells, both placed agents found a
\* path, and the reported rate is below 100
C26_Witness ==
    /\ Reported
    /\ num_people = 3
    /\ Len(people_positions) = 2
    /\ AllPlacedFound
    /\ BelowFullRate

(***************************************************************************)
(* Specification of a_star_search as a running loop, on the grids with at  *)
(* most MaxWalls walls, for every start cell and the goals TerminateGoals, *)
(* walkable or not.  The function is sequential code: while an iteration   *)
(* of its loop can run, it runs.                                           *)
(***************************************************************************)
\* the goals of the specification: a corner, the middle of an edge and the
\* centre of the grid
TerminateGoals == {<<0, 0>>, <<GridW \div 2, 0>>, <<GridW \div 2, GridH \div 2>>}

InitTerminate ==
    /\ pc = "search_begin"
    /\ grid \in RunGrids
    /\ start_arg \in Cells
    /\ end_arg \in TerminateGoals
    /\ start = start_arg
    /\ end = end_arg
    /\ open_list = {}
    /\ closed_list = {}
    /\ g_costs = <<>>
    /\ path = <<>>
    /\ LayoutIdle
    /\ SimIdle
    /\ RunIdle
    /\ BatchIdle

SpecTerminate == InitTerminate /\ [][NextSearch]_vars /\ WF_vars(NextSearch)

\* a_star_search has returned: `path` holds the returned path, or is empty
\* for None
SearchEnded == pc = "done"

\* a node pushed for a cell that already has a recorded cost carries a
\* cost below the recorded one (as floats: an equal sum of the same steps
\* can only compare as less when its value depends on the order of the
\* summands)
RepushImproves ==
    \A node \in Pushed :
        node.position \in DOMAIN g_costs =>
            \/ CostLess(node.g, g_costs[node.position])
            \/ /\ node.g = g_costs[node.position]
               /\ FloatOrderSensitive(node.g)

\* every iteration either closes a cell that was not closed or takes a node
\* off the heap without pushing any
LoopProgress ==
    pc = "search" /\ open_list # {} =>
        \/ closed_list \subseteq closed_list' /\ closed_list' # closed_list
        \/ open_list' \subseteq open_list /\ open_list' # open_list

\* C29: on every grid and for every start and goal a_star_search returns,
\* with a path or with None; a cell that has a recorded cost is pushed onto
\* the open list again only with a strictly lower cost, and every iteration
\* closes a new cell or shrinks the open list.
C29_Terminates ==
    /\ <>SearchEnded
    /\ [][RepushImproves /\ LoopProgress]_vars

\* a search has returned after pushing a cell a second time, with a lower
\* cost than the first
C29_Witness ==
    /\ SearchEnded
    /\ path # <<>>
    /\ \E n \in open_list : CostLess(g_costs[n.position], n.g)

(***************************************************************************)
(* a_star_search of path_visualizer.py: no clamping or replacement of the  *)
(* endpoints, and a neighbour loop with the bounds test and the wall test  *)
(* only.                                                                   *)
(***************************************************************************)
\* lines 74-77: the two `continue` tests of the loop
VisualizerNeighborOk(g, pos, d) ==
    LET n == <<pos[1] + d[1], pos[2] + d[2]>>
    IN  /\ InGrid(g, n)
        /\ g[n] = 0

VisualizerDirections(g, pos) ==
    {d \in SeqToSet(DIRECTIONS_32) : VisualizerNeighborOk(g, pos, d)}

\* The caller keeps the path of modules/pathfinding.py and calls
\* a_star_search of path_visualizer.py with the same arguments; lines
\* 46-52: the start node is pushed.
VisualizerBegin ==
    /\ pc = "done"
    /\ paths = <<>>
    /\ paths' = <<path>>
    /\ start' = start_arg
    /\ end' = end_arg
    /\ open_list' = {Node(start', Cost(0, 0), 0, <<start'>>)}
    /\ closed_list' = {}
    /\ g_costs' = [c \in {start'} |-> Cost(0, 0)]
    /\ path' = <<>>
    /\ pc' = "visualizer_search"
    /\ UNCHANGED <<start_arg, end_arg, grid, layoutVars, simVars, agent,
                   target_exits, times_s, results, batchVars>>

\* Lines 54-92: one iteration of the while loop.
VisualizerStep ==
    /\ pc = "visualizer_search"
    /\ open_list # {}
    /\ \E current_node \in PopCandidates(open_list) :
         LET pos == current_node.position
             rest == open_list \ {current_node}
         IN  IF pos \in closed_list
             THEN /\ open_list' = rest
                  /\ UNCHANGED <<closed_list, g_costs, path, pc>>
             ELSE /\ closed_list' = closed_list \cup {pos}
                  /\ IF pos = end
                     THEN /\ path' = current_node.chain
                          /\ pc' = "visualizer_done"
                          /\ open_list' = rest
                          /\ UNCHANGED g_costs
                     ELSE LET nb(d) == <<pos[1] + d[1], pos[2] + d[2]>>
                              new_g(d) == CostAdd(g_costs[pos], move_cost(d[1], d[2]))
                              dirs == VisualizerDirections(grid, pos)
                              must == {d \in dirs : MustPush(g_costs, nb(d), new_g(d))}
                              may == {d \in dirs : MayPush(g_costs, nb(d), new_g(d))}
                          IN  \E some \in SUBSET may :
                                LET pushed == must \cup some
                                IN  /\ g_costs' =
                                         [c \in DOMAIN g_costs \cup {nb(d) : d \in pushed} |->
                                            IF \E d \in pushed : nb(d) = c
                                            THEN new_g(CHOOSE d \in pushed : nb(d) = c)
                                            ELSE g_costs[c]]
                                    /\ open_list' = rest \cup
                                         {Node(nb(d), new_g(d),
                                               Cost1000(new_g(d)) + Dist1000(nb(d), end),
                                               Append(current_node.chain, nb(d)))
                                            : d \in pushed}
                                    /\ UNCHANGED <<path, pc>>
    /\ UNCHANGED <<start_arg, end_arg, start, end, grid, notSearchVars>>

\* Line 94: the heap is empty, return None.
VisualizerFail ==
    /\ pc = "visualizer_search"
    /\ open_list = {}
    /\ path' = <<>>
    /\ pc' = "visualizer_done"
    /\ UNCHANGED <<start_arg, end_arg, start, end, open_list, closed_list,
                   g_costs, grid, notSearchVars>>

(***************************************************************************)
(* Specification of the two searches on the same grid and the same         *)
(* walkable in-bounds endpoints, one after the other.                      *)
(***************************************************************************)
NextBoth ==
    \/ AStarBegin
    \/ AStarStep
    \/ AStarFail
    \/ VisualizerBegin
    \/ VisualizerStep
    \/ VisualizerFail

SpecBoth == InitSearch /\ [][NextBoth]_vars

BothReturned == pc = "visualizer_done"

\* the path of modules/pathfinding.py and the path of path_visualizer.py
ModulesPath == paths[1]

VisualizerPath == path

CutsCornerIn(p) ==
    \E i \in 1 .. Len(p) - 1 : CutsCorner(grid, p[i], p[i + 1])

\* C30: on walkable in-bounds endpoints the two searches both return None
\* or both return a path, the two paths have the same total cost, and the
\* path of path_visualizer.py has no unit-diagonal step next to a wall.
C30_SearchesEquivalent ==
    BothReturned =>
        /\ ModulesPath = <<>> <=> VisualizerPath = <<>>
        /\ ModulesPath # <<>> =>
              path_distance_px(ModulesPath) = path_distance_px(VisualizerPath)
        /\ ~CutsCornerIn(VisualizerPath)

\* What holds instead: whenever modules/pathfinding.py finds a path,
\* path_visualizer.py finds one that is not longer.
VisualizerNotLonger ==
    (BothReturned /\ ModulesPath # <<>>) =>
        /\ VisualizerPath # <<>>
        /\ ~CostLess(path_distance_px(ModulesPath),
                     path_distance_px(VisualizerPath))

\* On a grid without walls the two searches agree.
AgreeWithoutWalls ==
    (BothReturned /\ \A c \in Cells : grid[c] = 0) =>
        /\ ModulesPath # <<>>
        /\ path_distance_px(ModulesPath) = path_distance_px(VisualizerPath)

\* modules/pathfinding.py returns None and path_visualizer.py a path
\* through a corner
OnlyVisualizerFindsPath ==
    /\ BothReturned
    /\ ModulesPath = <<>>
    /\ VisualizerPath # <<>>
    /\ CutsCornerIn(VisualizerPath)

====
